---- MODULE Spec2Model ----
(***************************************************************************)
(* Model of the market indexer: the SQLite entity store (database.js),     *)
(* the ingestion handler and settlement pipeline (services/blockchain.js), *)
(* the oracle wrapper (aiService.js) and the periodic settlement job       *)
(* (jobs/marketProcessor.js).                                              *)
(*                                                                         *)
(* Spec    : the service at the granularity of its await points; a store   *)
(*           operation is one step that commits or raises.                 *)
(* SpecTx  : the store's withTransaction at the granularity of single SQL  *)
(*           statements issued by concurrent callers on the one shared     *)
(*           connection.                                                   *)
(***************************************************************************)
EXTENDS Integers, Sequences, FiniteSets, TLC

\* ------------------------------------------------------------------ bounds
Ids == {1}                 \* condition ids known to the ledger
Runs == {1, 2}             \* timer callbacks of the settlement job in flight
MaxTime == 3               \* the clock runs 0..MaxTime
MaxSubmits == 2            \* settle transactions submitted in one behaviour
MaxHandlers == 1           \* live-event handlers in flight at once
MaxCalls == 1              \* store operations issued by one caller (SpecTx)
MaxJournal == 1            \* journal rows a previous process left (SpecBoot)
MaxDeliveries == 2         \* deliveries of one creation event (SpecIngest)
MaxWrites == 1             \* store operations of the service after startup (SpecBoot)

\* ------------------------------------------------------- program constants
maxRetries == 3
\* Faulty variant: the delay is subtracted from the end time, not added.
DelaySubtracted == 0 - 1

SettlementDelay == 1       \* config.SETTLEMENT_DELAY_MS / 1000, in clock units

outcomes == {"YES", "NO"}
AutoSettledPrefix == <<"[AUTO-SETTLED AS NO] Original AI Assessment: ">>

\* ------------------------------------------------------------------ ledger
\* The contract's immutable per-market data, as the read calls return it.
getMarketEndTime(id) == id
CreatorOf(id) == id + 10
getYesTokenId(id) == 40 + 2 * id
getNoTokenId(id) == 41 + 2 * id

\* BigInt.prototype.toString(): the decimal digits, most significant first.
RECURSIVE toString(_)
toString(n) == IF n < 10 THEN <<n>> ELSE Append(toString(n \div 10), n % 10)

\* ------------------------------------------------------------- store rows
\* A row of table markets.  marketEndTime 0 stands for SQL NULL (the code
\* never stores an end time that is not > 0), winningTokenId <<>> for NULL.
NoRow ==
  [present |-> FALSE, marketCreator |-> 0, marketQuestion |-> FALSE,
   marketEndTime |-> 0, fetchedEndTime |-> FALSE,
   processedForSettlement |-> FALSE, isSettledOnChain |-> FALSE,
   winningTokenId |-> <<>>, retries |-> 0]

\* Faulty variant: the conflicting row is replaced (INSERT OR REPLACE).
UpsertReplaces(m, id, creator) ==
  [m EXCEPT ![id] = [NoRow EXCEPT !.present = TRUE, !.marketCreator = creator]]

\* Faulty variant: a re-ingested row starts its attempts afresh.
UpsertResetsRetries(m, id, creator) ==
  IF ~m[id].present
    THEN [m EXCEPT ![id] = [NoRow EXCEPT !.present = TRUE, !.marketCreator = creator]]
    ELSE [m EXCEPT ![id].marketCreator = creator, ![id].retries = 0]

\* Faulty variant: a delivery for a row that exists counts as an attempt.
UpsertBumpsRetries(m, id, creator) ==
  IF ~m[id].present
    THEN [m EXCEPT ![id] = [NoRow EXCEPT !.present = TRUE, !.marketCreator = creator]]
    ELSE [m EXCEPT ![id].marketCreator = creator, ![id].retries = @ + 1]

\* INSERT ... ON CONFLICT(conditionId) DO UPDATE SET marketCreator = ...
\*   WHERE markets.marketCreator != excluded.marketCreator
addOrUpdateMarket(m, id, creator) ==
  IF ~m[id].present
    THEN [m EXCEPT ![id] = [NoRow EXCEPT !.present = TRUE, !.marketCreator = creator]]
    ELSE IF m[id].marketCreator # creator
           THEN [m EXCEPT ![id].marketCreator = creator]
           ELSE m

\* return result.changes > 0: a row was inserted or updated.  The trigger
\* markets_updated_at writes updatedAt after an UPDATE of a row, the column
\* default at its INSERT; an upsert that changes no row writes none.
addOrUpdateMarketChanges(m, id, creator) ==
  ~m[id].present \/ m[id].marketCreator # creator

updateMarketEndTime(m, id, t) ==
  IF m[id].present /\ (m[id].marketEndTime = 0 \/ m[id].marketEndTime # t)
    THEN [m EXCEPT ![id].marketEndTime = t, ![id].fetchedEndTime = TRUE]
    ELSE m

updateMarketQuestion(m, id) ==
  IF m[id].present THEN [m EXCEPT ![id].marketQuestion = TRUE] ELSE m

\* Faulty variant: the UPDATE matches no row, the flag is not stored.
ProcessedFlagNotStored(m, id) == m

setMarketProcessedForSettlement(m, id) ==
  IF m[id].present THEN [m EXCEPT ![id].processedForSettlement = TRUE] ELSE m

resetMarketProcessedStatus(m, id) ==
  IF m[id].present THEN [m EXCEPT ![id].processedForSettlement = FALSE] ELSE m

updateMarketSettledOnChain(m, id, isSettled) ==
  IF m[id].present THEN [m EXCEPT ![id].isSettledOnChain = isSettled] ELSE m

\* Faulty variant: the UPDATE matches no row, the winning token is not stored.
WinningTokenIdNotStored(m, id, tokenStr) == m

updateMarketWinningTokenId(m, id, tokenStr) ==
  IF m[id].present THEN [m EXCEPT ![id].winningTokenId = tokenStr] ELSE m

incrementMarketRetryCount(m, id) ==
  IF m[id].present THEN [m EXCEPT ![id].retries = @ + 1] ELSE m

\* Faulty variant: the UPDATE leaves the retry count as it is.
RetryCountKept(m, id) == m

resetMarketRetryCount(m, id) ==
  IF m[id].present THEN [m EXCEPT ![id].retries = 0] ELSE m

\* The mutating operations by name, and their arguments.
StoreOps ==
  {"addOrUpdateMarket", "updateMarketEndTime", "updateMarketQuestion",
   "setMarketProcessedForSettlement", "resetMarketProcessedStatus",
   "updateMarketSettledOnChain", "updateMarketWinningTokenId",
   "incrementMarketRetryCount", "resetMarketRetryCount"}

StoreArgs ==
  [creator : {CreatorOf(i) : i \in Ids} \cup {CreatorOf(i) + 1 : i \in Ids},
   marketEndTime : {getMarketEndTime(i) : i \in Ids},
   isSettled : BOOLEAN,
   winningTokenId : {toString(getYesTokenId(i)) : i \in Ids}]

Apply(op, m, id, x) ==
  CASE op = "addOrUpdateMarket" -> addOrUpdateMarket(m, id, x.creator)
    [] op = "updateMarketEndTime" -> updateMarketEndTime(m, id, x.marketEndTime)
    [] op = "updateMarketQuestion" -> updateMarketQuestion(m, id)
    [] op = "setMarketProcessedForSettlement" -> setMarketProcessedForSettlement(m, id)
    [] op = "resetMarketProcessedStatus" -> resetMarketProcessedStatus(m, id)
    [] op = "updateMarketSettledOnChain" -> updateMarketSettledOnChain(m, id, x.isSettled)
    [] op = "updateMarketWinningTokenId" -> updateMarketWinningTokenId(m, id, x.winningTokenId)
    [] op = "incrementMarketRetryCount" -> incrementMarketRetryCount(m, id)
    [] OTHER -> resetMarketRetryCount(m, id)

\* return result.changes > 0
Changes(op, m, id, x) ==
  CASE op = "addOrUpdateMarket" -> addOrUpdateMarketChanges(m, id, x.creator)
    [] op = "updateMarketEndTime" ->
         m[id].present /\ (m[id].marketEndTime = 0 \/ m[id].marketEndTime # x.marketEndTime)
    [] OTHER -> m[id].present

\* ---------------------------------------------------- eligibility query
\* Faulty variant: the delay comparison is inclusive.
DelayPassedInclusive(row, t) == row.marketEndTime + SettlementDelay <= t

EndTimeKnown(row) == row.fetchedEndTime /\ row.marketEndTime # 0
DelayPassed(row, t) == row.marketEndTime + SettlementDelay < t
\* Faulty variant: the ceiling itself still counts as retries left.
RetriesLeftInclusive(row) == row.retries <= maxRetries

RetriesLeft(row) == row.retries < maxRetries

WhereClause(row, t) ==
  /\ row.present
  /\ EndTimeKnown(row)
  /\ DelayPassed(row, t)
  /\ ~row.processedForSettlement
  /\ ~row.isSettledOnChain
  /\ RetriesLeft(row)

\* Faulty variant: ORDER BY marketEndTime DESC.
RECURSIVE OrderByEndTimeDesc(_, _)
OrderByEndTimeDesc(m, S) ==
  IF S = {} THEN <<>>
  ELSE LET first == CHOOSE i \in S : \A j \in S :
                       \/ m[i].marketEndTime > m[j].marketEndTime
                       \/ (m[i].marketEndTime = m[j].marketEndTime /\ i <= j)
       IN <<first>> \o OrderByEndTimeDesc(m, S \ {first})

\* ORDER BY marketEndTime ASC (ties by id).
RECURSIVE OrderByEndTime(_, _)
OrderByEndTime(m, S) ==
  IF S = {} THEN <<>>
  ELSE LET first == CHOOSE i \in S : \A j \in S :
                       \/ m[i].marketEndTime < m[j].marketEndTime
                       \/ (m[i].marketEndTime = m[j].marketEndTime /\ i <= j)
       IN <<first>> \o OrderByEndTime(m, S \ {first})

\* SELECT * FROM markets WHERE ... : the rows of the table that qualify.
getMarketsToProcess(m, t) ==
  OrderByEndTime(m, {i \in DOMAIN m : WhereClause(m[i], t)})

Range(s) == {s[k] : k \in 1..Len(s)}

\* ------------------------------------------------------------------ oracle
\* What the oracle call can yield: ok = a parseable JSON object came back;
\* answer "null" is JSON null, "" the empty string; reasoning <<>> is absent.
OracleResponses ==
  { [ok |-> FALSE, answer |-> "null", reasoning |-> <<>>] } \cup
  { [ok |-> TRUE, answer |-> a, reasoning |-> <<"why">>] :
      a \in {"YES", "NO", "yes", "MAYBE", "null"} } \cup
  { [ok |-> TRUE, answer |-> a, reasoning |-> <<>>] : a \in {"YES", "null"} }

NoAnalysis == [answer |-> "null", reasoning |-> <<>>]

\* Faulty variant: the answer is not validated against the outcomes.
AnalysisUnvalidated(resp) ==
  IF ~resp.ok \/ resp.reasoning = <<>> THEN NoAnalysis
  ELSE IF resp.answer = "null"
    THEN [answer |-> "NO", reasoning |-> AutoSettledPrefix \o resp.reasoning]
  ELSE IF resp.answer # "" THEN [answer |-> resp.answer, reasoning |-> resp.reasoning]
  ELSE NoAnalysis

\* Faulty variant: a null answer is passed on as no answer.
AnalysisNullIsNoAnswer(resp) ==
  IF ~resp.ok \/ resp.reasoning = <<>> THEN NoAnalysis
  ELSE IF resp.answer = "null" THEN NoAnalysis
  ELSE IF resp.answer # "" /\ resp.answer \notin outcomes THEN NoAnalysis
  ELSE IF resp.answer # "" THEN [answer |-> resp.answer, reasoning |-> resp.reasoning]
  ELSE NoAnalysis

getMarketSettlementAnalysis(resp) ==
  IF ~resp.ok \/ resp.reasoning = <<>> THEN NoAnalysis
  ELSE IF resp.answer = "null"
    THEN [answer |-> "NO", reasoning |-> AutoSettledPrefix \o resp.reasoning]
  ELSE IF resp.answer # "" /\ resp.answer \notin outcomes THEN NoAnalysis
  ELSE IF resp.answer # "" THEN [answer |-> resp.answer, reasoning |-> resp.reasoning]
  ELSE NoAnalysis

toUpperCase(s) == IF s = "yes" THEN "YES" ELSE s

\* ---------------------------------------------------------------- audit sink
\* What the upsert into the sink's table does: the row comes back, the client
\* returns an error, the call throws, or no client was configured.
SinkOutcomes == {"stored", "error", "throws", "unconfigured"}

\* storeAIReasoning: the value its caller gets, and whether it throws.
storeAIReasoning(sink) ==
  [raised |-> FALSE, value |-> IF sink = "stored" THEN "data" ELSE "null"]

\* Faulty variant: a failed sink write ends in the function's outer catch.
AnalysisSinkAborts(resp, conditionId, sink) ==
  LET a == getMarketSettlementAnalysis(resp) IN
  IF a # NoAnalysis /\ conditionId # 0 /\ sink \in {"error", "throws"}
    THEN [analysis |-> NoAnalysis, sink |-> "raised"]
    ELSE [analysis |-> a, sink |-> "skipped"]

\* getMarketSettlementAnalysis called with a conditionId (0: without): the
\* sink write in its own try/catch, before the analysis is returned.
AnalysisRecorded(resp, conditionId, sink) ==
  LET a == getMarketSettlementAnalysis(resp) IN
  [analysis |-> a,
   sink |-> IF a = NoAnalysis \/ conditionId = 0 THEN "skipped"
            ELSE IF storeAIReasoning(sink).raised THEN "logged"
            ELSE storeAIReasoning(sink).value]

\* ------------------------------------------------------------------- state
VARIABLES
  markets,        \* table markets: [Ids -> row]
  now,            \* the clock, Math.floor(Date.now() / 1000)
  ledgerSettled,  \* contract: marketSettled(id)
  ledgerWinner,   \* contract: winningTokenId(id)
  txs,            \* settle transactions sent: <<[id, token, st, acked]>>, st one of
                  \* pending/effect/reverted, acked = its receipt was recorded locally
  isProcessing,   \* marketProcessor.js: the settlement job's lock
  run,            \* the invocations of checkAndProcessMarkets: [Runs -> frame]
  ing,            \* the live-event handler of each id: its position
  cli,            \* the reset-market command process: its position, the row it
                  \* read and its exit code
  conn,           \* the one SQLite connection: its open transaction and what
                  \* its statements see (markets is what is committed)
  call,           \* the withTransaction calls in flight: [TxCallers -> frame]
  probe,          \* one call of a function of the service: its arguments and
                  \* what it returned
  boot,           \* startup: the invocations of recoverPendingOperations, what
                  \* they replayed, and how far main has come
  deliv           \* deliveries of one PNP_MarketCreated event: the handler of
                  \* each (historical or live) and its position

vars == <<markets, now, ledgerSettled, ledgerWinner, txs, isProcessing, run, ing, cli,
          conn, call, probe, boot, deliv>>
auxVars == <<probe, boot, deliv>>
svcVars == <<now, ledgerSettled, ledgerWinner, txs, isProcessing, run, ing, cli, auxVars>>
txVars == <<conn, call, auxVars>>

NoResp == [ok |-> FALSE, answer |-> "none", reasoning |-> <<>>]

\* The locals of one loop iteration of checkAndProcessMarkets, with what it did.
NoAtt ==
  [id |-> 0, rec0 |-> NoRow, dirty |-> FALSE, isSettled |-> FALSE,
   resp |-> NoResp, analysis |-> NoAnalysis, audit |-> "none", token |-> 0, tx |-> 0,
   ops |-> <<>>, result |-> "none", err |-> "none"]

\* One invocation: its position, the query's result, how many of its rows the
\* loop has taken, and whether a later invocation found it running.
IdleRun == [pc |-> "idle", snap |-> <<>>, k |-> 0, turnedAway |-> FALSE, att |-> NoAtt]

\* The callers that share the connection, each with the operation it issues.
TxCallers == {"job", "handler", "backfill"}

NoStmt == [by |-> "none", stmt |-> "none", owner |-> "none"]
ConnInit(m) ==
  [inTx |-> FALSE, owner |-> "none", view |-> m, journal |-> <<>>,
   committed |-> <<>>, last |-> NoStmt]
IdleCall == [pc |-> "idle", n |-> 0, before |-> NoRow, result |-> "none"]
NoProbe == [op |-> "none"]
IdleCli == [pc |-> "idle", id |-> 0, before |-> NoRow, exit |-> -1, raised |-> FALSE]

\* recoverPendingOperations is called when the store module is loaded and again
\* from main (or from the reset command).
RecoveryCalls == {"load", "main"}

IdleRecovery == [pc |-> "select", ops |-> <<>>, k |-> 0]
NoDeliv == [h |-> <<>>, before |-> NoRow]
NoBoot ==
  [rec |-> [h \in RecoveryCalls |-> IdleRecovery], main |-> "recover",
   before |-> NoRow, pending0 |-> {}, replayed |-> <<>>, raised |-> {}, served |-> 0,
   armed |-> {}, failed |-> {}]

Init ==
  /\ markets = [i \in Ids |-> NoRow]
  /\ conn = ConnInit([i \in Ids |-> NoRow])
  /\ call = [c \in TxCallers |-> IdleCall]
  /\ now = 0
  /\ ledgerSettled = [i \in Ids |-> FALSE]
  /\ ledgerWinner = [i \in Ids |-> 0]
  /\ txs = <<>>
  /\ isProcessing = FALSE
  /\ run = [r \in Runs |-> IdleRun]
  /\ ing = [i \in Ids |-> "idle"]
  /\ cli = IdleCli
  /\ probe = NoProbe
  /\ boot = NoBoot
  /\ deliv = NoDeliv

\* A write by somebody else to the row an iteration is working on.
Others(rn, r, m2) ==
  [q \in Runs |->
     IF q # r /\ rn[q].att.id # 0 /\ m2[rn[q].att.id] # markets[rn[q].att.id]
       THEN [rn[q] EXCEPT !.att.dirty = TRUE] ELSE rn[q]]

\* Frame r becomes f and the table becomes m2.
Step(r, f, m2) ==
  /\ markets' = m2
  /\ run' = [Others(run, r, m2) EXCEPT ![r] = f]

Finish(f, result, err) ==
  [f EXCEPT !.pc = "iter_end", !.att.result = result, !.att.err = err]

Abort(f, err) ==
  [f EXCEPT !.pc = "finally", !.att.result = "failure", !.att.err = err]

Did(f, op) == [f EXCEPT !.att.ops = Append(@, op)]

\* ------------------------------------------- checkAndProcessMarkets (job)
\* Faulty variant: the guard never sees the lock.
NeverBusy == FALSE

Busy == isProcessing

\* The timer fires (node-cron's schedule, or the startup setTimeout).  A call
\* that finds the lock taken returns at once, in the same turn of the event
\* loop, having changed nothing.
Invoke(r) ==
  /\ run[r].pc = "idle"
  /\ \A q \in Runs : q < r => run[q].pc # "idle"
  /\ IF Busy
       THEN /\ UNCHANGED isProcessing
            /\ run' = [q \in Runs |-> IF run[q].pc # "idle"
                                        THEN [run[q] EXCEPT !.turnedAway = TRUE]
                                        ELSE run[q]]
       ELSE /\ isProcessing' = TRUE
            /\ run' = [run EXCEPT ![r].pc = "query"]
  /\ UNCHANGED <<markets, now, ledgerSettled, ledgerWinner, txs, ing, cli, txVars>>

\* db.getMarketsToProcess(), or its rejection caught by the job's catch.
Query(r) ==
  /\ run[r].pc = "query"
  /\ \E ok \in BOOLEAN :
       run' = [run EXCEPT ![r] =
                 IF ok THEN [@ EXCEPT !.pc = "loop", !.snap = getMarketsToProcess(markets, now)]
                       ELSE [@ EXCEPT !.pc = "finally"]]
  /\ UNCHANGED <<markets, now, ledgerSettled, ledgerWinner, txs, isProcessing, ing, cli, txVars>>

\* for (const market of marketsToProcess)
Loop(r) ==
  /\ run[r].pc = "loop"
  /\ run' = [run EXCEPT ![r] =
               IF @.k = Len(@.snap)
                 THEN [@ EXCEPT !.pc = "finally"]
                 ELSE [@ EXCEPT !.pc = "chk_read", !.k = @ + 1,
                                !.att = [NoAtt EXCEPT !.id = run[r].snap[run[r].k + 1],
                                                      !.rec0 = markets[run[r].snap[run[r].k + 1]]]]]
  /\ UNCHANGED <<markets, now, ledgerSettled, ledgerWinner, txs, isProcessing, ing, cli, txVars>>

\* getMarketSettledFromChain: the contract read; an error is rethrown to the job.
ChkRead(r) ==
  /\ run[r].pc = "chk_read"
  /\ \E ok \in BOOLEAN :
       run' = [run EXCEPT ![r] =
                 IF ok THEN [@ EXCEPT !.pc = "chk_store", !.att.isSettled = ledgerSettled[run[r].att.id]]
                       ELSE Abort(@, "settledRead")]
  /\ UNCHANGED <<markets, now, ledgerSettled, ledgerWinner, txs, isProcessing, ing, cli, txVars>>

\* getMarketSettledFromChain: db.updateMarketSettledOnChain(conditionId, isSettled)
ChkStore(r) ==
  /\ run[r].pc = "chk_store"
  /\ LET me == run[r]  id == run[r].att.id IN
     \E ok \in BOOLEAN :
       IF ok
         THEN Step(r, [Did(me, "settled") EXCEPT !.pc = IF me.att.isSettled THEN "chk_mark" ELSE "p_read"],
                   updateMarketSettledOnChain(markets, id, me.att.isSettled))
         ELSE Step(r, Abort(me, "store"), markets)
  /\ UNCHANGED <<now, ledgerSettled, ledgerWinner, txs, isProcessing, ing, cli, txVars>>

\* if (isSettled) { await db.setMarketProcessedForSettlement(...); continue; }
ChkMark(r) ==
  /\ run[r].pc = "chk_mark"
  /\ LET me == run[r]  id == run[r].att.id IN
     \E ok \in BOOLEAN :
       IF ok
         THEN Step(r, Finish(Did(me, "processed"), "alreadySettled", "none"),
                   setMarketProcessedForSettlement(markets, id))
         ELSE Step(r, Abort(me, "store"), markets)
  /\ UNCHANGED <<now, ledgerSettled, ledgerWinner, txs, isProcessing, ing, cli, txVars>>

\* -------------------------------------------- processMarketAndSettleOnChain
\* const isSettled = await pnpFactoryContract.marketSettled(conditionId)
PRead(r) ==
  /\ run[r].pc = "p_read"
  /\ \E ok \in BOOLEAN :
       run' = [run EXCEPT ![r] =
                 IF ~ok THEN Finish(@, "failure", "settledRead")
                 ELSE IF ledgerSettled[@.att.id] THEN [@ EXCEPT !.pc = "p_as_mark"]
                 ELSE [@ EXCEPT !.pc = "p_getmarket"]]
  /\ UNCHANGED <<markets, now, ledgerSettled, ledgerWinner, txs, isProcessing, ing, cli, txVars>>

\* already settled: setMarketProcessedForSettlement, then updateMarketSettledOnChain
PAsMark(r) ==
  /\ run[r].pc = "p_as_mark"
  /\ LET me == run[r]  id == run[r].att.id IN
     \E ok \in BOOLEAN :
       IF ok
         THEN Step(r, [Did(me, "processed") EXCEPT !.pc = "p_as_store"],
                   setMarketProcessedForSettlement(markets, id))
         ELSE Step(r, Finish(me, "failure", "store"), markets)
  /\ UNCHANGED <<now, ledgerSettled, ledgerWinner, txs, isProcessing, ing, cli, txVars>>

PAsStore(r) ==
  /\ run[r].pc = "p_as_store"
  /\ LET me == run[r]  id == run[r].att.id IN
     \E ok \in BOOLEAN :
       IF ok
         THEN Step(r, Finish(Did(me, "settled"), "alreadySettled", "none"),
                   updateMarketSettledOnChain(markets, id, TRUE))
         ELSE Step(r, Finish(me, "failure", "store"), markets)
  /\ UNCHANGED <<now, ledgerSettled, ledgerWinner, txs, isProcessing, ing, cli, txVars>>

\* const market = await db.getMarket(conditionId), and the question check
PGetMarket(r) ==
  /\ run[r].pc = "p_getmarket"
  /\ \E ok \in BOOLEAN :
       run' = [run EXCEPT ![r] =
                 IF ~ok THEN Finish(@, "failure", "store")
                 ELSE IF ~markets[@.att.id].present THEN Finish(@, "failure", "notFound")
                 ELSE IF ~markets[@.att.id].marketQuestion THEN [@ EXCEPT !.pc = "p_fetchq"]
                 ELSE [@ EXCEPT !.pc = "p_endtime"]]
  /\ UNCHANGED <<markets, now, ledgerSettled, ledgerWinner, txs, isProcessing, ing, cli, txVars>>

\* fetchAndStoreMarketQuestion (it swallows its errors), then getMarket again
PFetchQuestion(r) ==
  /\ run[r].pc = "p_fetchq"
  /\ LET me == run[r]  id == run[r].att.id IN
     \E fetched \in BOOLEAN :
       IF fetched
         THEN Step(r, [Did(me, "question") EXCEPT !.pc = "p_endtime"],
                   updateMarketQuestion(markets, id))
         ELSE Step(r, IF markets[id].marketQuestion
                        THEN [me EXCEPT !.pc = "p_endtime"]
                        ELSE Finish(me, "failure", "question"), markets)
  /\ UNCHANGED <<now, ledgerSettled, ledgerWinner, txs, isProcessing, ing, cli, txVars>>

\* getMarketEndTime, and the end-time and settlement-delay checks
PEndTime(r) ==
  /\ run[r].pc = "p_endtime"
  /\ \E ok \in BOOLEAN :
       run' = [run EXCEPT ![r] =
                 LET marketEndTime == getMarketEndTime(@.att.id) IN
                 IF ~ok THEN Finish(@, "failure", "endTimeRead")
                 ELSE IF marketEndTime = 0 THEN Finish(@, "failure", "invalidEndTime")
                 ELSE IF marketEndTime > now THEN Finish(@, "failure", "notEnded")
                 ELSE IF now < marketEndTime + SettlementDelay THEN Finish(@, "failure", "delayNotMet")
                 ELSE [@ EXCEPT !.pc = "oracle"]]
  /\ UNCHANGED <<markets, now, ledgerSettled, ledgerWinner, txs, isProcessing, ing, cli, txVars>>

\* ------------------------------------------------- executeSettlementLogic
\* if (aiAnalysis && aiAnalysis.answer)
HasAnswer(analysis) == analysis.answer # "null" /\ analysis.answer # ""

\* What executeSettlementLogic goes on to do with the analysis: the token it
\* submits in settleMarket, or the failure result that counts one retry.
SettlementDecision(aiAnalysis, id) ==
  IF HasAnswer(aiAnalysis) /\ toUpperCase(aiAnalysis.answer) = "YES"
    THEN [settle |-> TRUE, token |-> getYesTokenId(id)]
  ELSE IF HasAnswer(aiAnalysis) /\ toUpperCase(aiAnalysis.answer) = "NO"
    THEN [settle |-> TRUE, token |-> getNoTokenId(id)]
  ELSE [settle |-> FALSE, token |-> 0]

\* getMarketSettlementAnalysis(marketQuestion, outcomes) and the YES/NO branch:
\* the call passes no conditionId (0), whatever the sink would do.
Oracle(r) ==
  /\ run[r].pc = "oracle"
  /\ \E resp \in OracleResponses, sink \in SinkOutcomes :
       LET recorded == AnalysisRecorded(resp, 0, sink)
           aiAnalysis == recorded.analysis
           f == [run[r] EXCEPT !.att.resp = resp, !.att.analysis = aiAnalysis,
                               !.att.audit = recorded.sink]
       IN run' = [run EXCEPT ![r] =
                    IF HasAnswer(aiAnalysis)
                      THEN IF toUpperCase(aiAnalysis.answer) \in {"YES", "NO"}
                             THEN [f EXCEPT !.pc = "resolve"]
                             ELSE [f EXCEPT !.pc = "p_inc", !.att.err = "rejected"]
                      ELSE [f EXCEPT !.pc = "p_inc",
                                     !.att.err = IF resp.ok /\ resp.answer \notin outcomes \cup {"null"}
                                                   THEN "rejected" ELSE "oracle"]]
  /\ UNCHANGED <<markets, now, ledgerSettled, ledgerWinner, txs, isProcessing, ing, cli, txVars>>

\* getYesTokenId / getNoTokenId; an error is rethrown past executeSettlementLogic
Resolve(r) ==
  /\ run[r].pc = "resolve"
  /\ \E ok \in BOOLEAN :
       run' = [run EXCEPT ![r] =
                 IF ok THEN [@ EXCEPT !.pc = "submit",
                                      !.att.token = IF toUpperCase(run[r].att.analysis.answer) = "YES"
                                                      THEN getYesTokenId(run[r].att.id)
                                                      ELSE getNoTokenId(run[r].att.id)]
                       ELSE Finish(@, "failure", "resolve")]
  /\ UNCHANGED <<markets, now, ledgerSettled, ledgerWinner, txs, isProcessing, ing, cli, txVars>>

\* const tx = await settlerContract.settleMarket(conditionId, winningTokenIdBigInt)
Submit(r) ==
  /\ run[r].pc = "submit"
  /\ \E sent \in BOOLEAN :
       IF sent
         THEN /\ Len(txs) < MaxSubmits
              /\ txs' = Append(txs, [id |-> run[r].att.id, token |-> run[r].att.token, st |-> "pending", acked |-> FALSE])
              /\ run' = [run EXCEPT ![r].pc = "wait", ![r].att.tx = Len(txs) + 1]
         ELSE /\ txs' = txs
              /\ run' = [run EXCEPT ![r].pc = "p_inc", ![r].att.err = "submit"]
  /\ UNCHANGED <<markets, now, ledgerSettled, ledgerWinner, isProcessing, ing, cli, txVars>>

\* const receipt = await tx.wait(1): the receipt of the mined transaction, or
\* an error (a revert, or the provider failing while the transaction is out)
Wait(r) ==
  /\ run[r].pc = "wait"
  /\ \E confirmed \in BOOLEAN :
       IF confirmed
         THEN /\ txs[run[r].att.tx].st = "effect"
              /\ run' = [run EXCEPT ![r].pc = "s_mark"]
         ELSE run' = [run EXCEPT ![r].pc = "p_inc", ![r].att.err = "wait"]
  /\ UNCHANGED <<markets, now, ledgerSettled, ledgerWinner, txs, isProcessing, ing, cli, txVars>>

\* success: setMarketProcessedForSettlement, updateMarketSettledOnChain(true),
\* updateMarketWinningTokenId, in this order; an error ends in the outer catch
SMark(r) ==
  /\ run[r].pc = "s_mark"
  /\ LET me == run[r]  id == run[r].att.id IN
     \E ok \in BOOLEAN :
       IF ok
         THEN /\ Step(r, [Did(me, "processed") EXCEPT !.pc = "s_store"],
                      setMarketProcessedForSettlement(markets, id))
              /\ txs' = [txs EXCEPT ![me.att.tx].acked = TRUE]
         ELSE /\ Step(r, Finish(me, "failure", "store"), markets)
              /\ txs' = txs
  /\ UNCHANGED <<now, ledgerSettled, ledgerWinner, isProcessing, ing, cli, txVars>>

SStore(r) ==
  /\ run[r].pc = "s_store"
  /\ LET me == run[r]  id == run[r].att.id IN
     \E ok \in BOOLEAN :
       IF ok
         THEN Step(r, [Did(me, "settled") EXCEPT !.pc = "s_token"],
                   updateMarketSettledOnChain(markets, id, TRUE))
         ELSE Step(r, Finish(me, "failure", "store"), markets)
  /\ UNCHANGED <<now, ledgerSettled, ledgerWinner, txs, isProcessing, ing, cli, txVars>>

SToken(r) ==
  /\ run[r].pc = "s_token"
  /\ LET me == run[r]  id == run[r].att.id IN
     \E ok \in BOOLEAN :
       IF ok
         THEN Step(r, Finish(Did(me, "token"), "success", "none"),
                   updateMarketWinningTokenId(markets, id, toString(me.att.token)))
         ELSE Step(r, Finish(me, "failure", "store"), markets)
  /\ UNCHANGED <<now, ledgerSettled, ledgerWinner, txs, isProcessing, ing, cli, txVars>>

\* failure result of executeSettlementLogic: await db.incrementMarketRetryCount
PInc(r) ==
  /\ run[r].pc = "p_inc"
  /\ LET me == run[r]  id == run[r].att.id IN
     \E ok \in BOOLEAN :
       IF ok
         THEN Step(r, Finish(Did(me, "inc"), "failure", me.att.err),
                   incrementMarketRetryCount(markets, id))
         ELSE Step(r, Finish(me, "failure", "store"), markets)
  /\ UNCHANGED <<now, ledgerSettled, ledgerWinner, txs, isProcessing, ing, cli, txVars>>

\* the end of one iteration (after the 1 s pause, or at the continue)
IterEnd(r) ==
  /\ run[r].pc = "iter_end"
  /\ run' = [run EXCEPT ![r].pc = "loop", ![r].att = NoAtt]
  /\ UNCHANGED <<markets, now, ledgerSettled, ledgerWinner, txs, isProcessing, ing, cli, txVars>>

\* finally { isProcessing = false }
\* Faulty variant: the run ends without releasing the lock.
LockKept(r) ==
  /\ run[r].pc = "finally"
  /\ run' = [run EXCEPT ![r] = IdleRun]
  /\ UNCHANGED <<markets, now, ledgerSettled, ledgerWinner, txs, isProcessing, ing, cli, txVars>>

Finally(r) ==
  /\ run[r].pc = "finally"
  /\ isProcessing' = FALSE
  /\ run' = [run EXCEPT ![r] = IdleRun]
  /\ UNCHANGED <<markets, now, ledgerSettled, ledgerWinner, txs, ing, cli, txVars>>

\* ------------------------------------------------------------ environment
\* A pending settle transaction is mined.  On a market not yet settled it
\* takes effect; on a settled one the contract either reverts it or applies it
\* (the contract is not part of the repository).
Mine(n) ==
  /\ n \in 1..Len(txs)
  /\ txs[n].st = "pending"
  /\ \E applies \in BOOLEAN :
       IF applies \/ ~ledgerSettled[txs[n].id]
         THEN /\ txs' = [txs EXCEPT ![n].st = "effect"]
              /\ ledgerSettled' = [ledgerSettled EXCEPT ![txs[n].id] = TRUE]
              /\ ledgerWinner' = [ledgerWinner EXCEPT ![txs[n].id] = txs[n].token]
         ELSE /\ txs' = [txs EXCEPT ![n].st = "reverted"]
              /\ UNCHANGED <<ledgerSettled, ledgerWinner>>
  /\ UNCHANGED <<markets, now, isProcessing, run, ing, cli, txVars>>

Tick ==
  /\ now < MaxTime
  /\ now' = now + 1
  /\ UNCHANGED <<markets, ledgerSettled, ledgerWinner, txs, isProcessing, run, ing, cli, txVars>>

\* The process dies and is started again: memory is lost, the database file,
\* the ledger and the transactions already sent are not.
Crash ==
  /\ isProcessing' = FALSE
  /\ run' = [r \in Runs |-> IdleRun]
  /\ ing' = [i \in Ids |-> "idle"]
  /\ UNCHANGED <<markets, now, ledgerSettled, ledgerWinner, txs, cli, txVars>>

\* ------------------------------------- listenForMarketCreatedEvents handler
\* A write to the table by a handler that is not the settlement job.
Write(m2) ==
  /\ markets' = m2
  /\ run' = Others(run, 0, m2)

InFlight == Cardinality({i \in Ids : ing[i] # "idle"})

\* PNP_MarketCreated(conditionId, marketCreator): db.addOrUpdateMarket
LiveEvent(id) ==
  /\ ing[id] = "idle"
  /\ InFlight < MaxHandlers
  /\ \E ok \in BOOLEAN :
       IF ok
         THEN /\ Write(addOrUpdateMarket(markets, id, CreatorOf(id)))
              /\ ing' = [ing EXCEPT ![id] = "pre_read"]
         ELSE UNCHANGED <<markets, run, ing>>
  /\ UNCHANGED <<now, ledgerSettled, ledgerWinner, txs, isProcessing, cli, txVars>>

\* fetchAndRecordPreSettledMarketDetails: marketSettled(conditionId)
IngPreRead(id) ==
  /\ ing[id] = "pre_read"
  /\ \E ok \in BOOLEAN :
       ing' = [ing EXCEPT ![id] = IF ok /\ ledgerSettled[id] THEN "pre_store" ELSE "endtime"]
  /\ UNCHANGED <<markets, now, ledgerSettled, ledgerWinner, txs, isProcessing, run, cli, txVars>>

\* db.updateMarketSettledOnChain(conditionId, true)
IngPreStore(id) ==
  /\ ing[id] = "pre_store"
  /\ \E ok \in BOOLEAN :
       IF ok
         THEN /\ Write(updateMarketSettledOnChain(markets, id, TRUE))
              /\ ing' = [ing EXCEPT ![id] = "pre_mark"]
         ELSE /\ ing' = [ing EXCEPT ![id] = "endtime"]
              /\ UNCHANGED <<markets, run>>
  /\ UNCHANGED <<now, ledgerSettled, ledgerWinner, txs, isProcessing, cli, txVars>>

\* db.setMarketProcessedForSettlement(conditionId)
IngPreMark(id) ==
  /\ ing[id] = "pre_mark"
  /\ \E ok \in BOOLEAN :
       IF ok
         THEN /\ Write(setMarketProcessedForSettlement(markets, id))
              /\ ing' = [ing EXCEPT ![id] = "pre_token"]
         ELSE /\ ing' = [ing EXCEPT ![id] = "endtime"]
              /\ UNCHANGED <<markets, run>>
  /\ UNCHANGED <<now, ledgerSettled, ledgerWinner, txs, isProcessing, cli, txVars>>

\* winningTokenId(conditionId) and db.updateMarketWinningTokenId, best effort
IngPreToken(id) ==
  /\ ing[id] = "pre_token"
  /\ \E ok \in BOOLEAN :
       IF ok
         THEN Write(updateMarketWinningTokenId(markets, id, toString(ledgerWinner[id])))
         ELSE UNCHANGED <<markets, run>>
  /\ ing' = [ing EXCEPT ![id] = "endtime"]
  /\ UNCHANGED <<now, ledgerSettled, ledgerWinner, txs, isProcessing, cli, txVars>>

\* fetchAndStoreMarketEndTime: the read, and the update when the value is > 0
IngEndTime(id) ==
  /\ ing[id] = "endtime"
  /\ \E ok \in BOOLEAN :
       IF ok /\ getMarketEndTime(id) > 0
         THEN Write(updateMarketEndTime(markets, id, getMarketEndTime(id)))
         ELSE UNCHANGED <<markets, run>>
  /\ ing' = [ing EXCEPT ![id] = "question"]
  /\ UNCHANGED <<now, ledgerSettled, ledgerWinner, txs, isProcessing, cli, txVars>>

\* fetchAndStoreMarketQuestion
IngQuestion(id) ==
  /\ ing[id] = "question"
  /\ \E ok \in BOOLEAN :
       IF ok
         THEN Write(updateMarketQuestion(markets, id))
         ELSE UNCHANGED <<markets, run>>
  /\ ing' = [ing EXCEPT ![id] = "idle"]
  /\ UNCHANGED <<now, ledgerSettled, ledgerWinner, txs, isProcessing, cli, txVars>>

\* ------------------------------------------ reset-market (resetFailedMarket)
\* Faulty variant: the failed-attempt history is not looked at.
IsUnprocessed(row) == ~row.processedForSettlement

IsFailedMarket(row) == ~row.processedForSettlement /\ row.retries > 0

\* process.exit(result.success ? 0 : 1), or process.exit(1) in the catch
Exited(id, row, code, raised) ==
  [pc |-> "exited", id |-> id, before |-> row, exit |-> code, raised |-> raised]

\* node index.js reset-market <id>: recovery and initializeBlockchainService,
\* then const market = await db.getMarket(conditionId) and the checks on it
CliReset(id) ==
  /\ cli.pc = "idle"
  /\ \E ok \in BOOLEAN :
       cli' = IF ~ok THEN Exited(id, markets[id], 1, TRUE)
              ELSE IF ~markets[id].present THEN Exited(id, markets[id], 1, FALSE)
              ELSE IF IsFailedMarket(markets[id])
                THEN [pc |-> "reset_processed", id |-> id, before |-> markets[id],
                      exit |-> -1, raised |-> FALSE]
              ELSE Exited(id, markets[id], 1, FALSE)
  /\ UNCHANGED <<markets, now, ledgerSettled, ledgerWinner, txs, isProcessing, run, ing, txVars>>

\* await db.resetMarketProcessedStatus(conditionId)
CliResetProcessed ==
  /\ cli.pc = "reset_processed"
  /\ \E ok \in BOOLEAN :
       IF ok
         THEN /\ Write(resetMarketProcessedStatus(markets, cli.id))
              /\ cli' = [cli EXCEPT !.pc = "reset_retries"]
         ELSE /\ cli' = Exited(cli.id, cli.before, 1, TRUE)
              /\ UNCHANGED <<markets, run>>
  /\ UNCHANGED <<now, ledgerSettled, ledgerWinner, txs, isProcessing, ing, txVars>>

\* await db.resetMarketRetryCount(conditionId)
CliResetRetries ==
  /\ cli.pc = "reset_retries"
  /\ \E ok \in BOOLEAN :
       IF ok
         THEN /\ Write(resetMarketRetryCount(markets, cli.id))
              /\ cli' = Exited(cli.id, cli.before, 0, FALSE)
         ELSE /\ cli' = Exited(cli.id, cli.before, 1, TRUE)
              /\ UNCHANGED <<markets, run>>
  /\ UNCHANGED <<now, ledgerSettled, ledgerWinner, txs, isProcessing, ing, txVars>>

\* -------------------------------------------------- withTransaction (SpecTx)
\* The row the callers work on, and the table once the row has been ingested.
TxId == CHOOSE i \in Ids : TRUE
StoredTable == [i \in Ids |-> [NoRow EXCEPT !.present = TRUE, !.marketCreator = CreatorOf(i)]]

\* The settlement job counts a failed attempt, the live-event handler marks a
\* market found settled, the backfill job stores a question.
OperationOf(c) ==
  CASE c = "job" -> "incrementMarketRetryCount"
    [] c = "handler" -> "setMarketProcessedForSettlement"
    [] OTHER -> "updateMarketQuestion"

\* The operation's UPDATE markets statement.
Mutation(c, m) ==
  CASE c = "job" -> incrementMarketRetryCount(m, TxId)
    [] c = "handler" -> setMarketProcessedForSettlement(m, TxId)
    [] OTHER -> updateMarketQuestion(m, TxId)

\* A statement of caller c runs on the connection: inside whatever transaction
\* is open there, or, with none open, committed on its own.
Exec(c, stmt, view2, journal2) ==
  /\ conn' = [conn EXCEPT !.view = view2, !.journal = journal2,
                          !.committed = IF conn.inTx THEN @ ELSE journal2,
                          !.last = [by |-> c, stmt |-> stmt,
                                    owner |-> IF conn.inTx THEN conn.owner ELSE "none"]]
  /\ markets' = IF conn.inTx THEN markets ELSE view2

Raise(c) == call' = [call EXCEPT ![c].pc = "rollback"]

\* A caller enters a store operation (its try block and withTransaction).
TxCall(c) ==
  /\ call[c].pc = "idle"
  /\ call[c].n < MaxCalls
  /\ call' = [call EXCEPT ![c] = [pc |-> "begin", n |-> @.n + 1,
                                  before |-> markets[TxId], result |-> "none"]]
  /\ UNCHANGED <<markets, conn, svcVars>>

\* await db.exec('BEGIN TRANSACTION'): an error while a transaction is open
TxBegin(c) ==
  /\ call[c].pc = "begin"
  /\ IF conn.inTx
       THEN /\ Raise(c)
            /\ UNCHANGED conn
       ELSE /\ conn' = [conn EXCEPT !.inTx = TRUE, !.owner = c,
                                    !.last = [by |-> c, stmt |-> "begin", owner |-> "none"]]
            /\ call' = [call EXCEPT ![c].pc = "insert"]
  /\ UNCHANGED <<markets, svcVars>>

\* INSERT INTO operations_journal (operation, conditionId) VALUES (?, ?)
TxInsert(c) ==
  /\ call[c].pc = "insert"
  /\ \E ok \in BOOLEAN :
       IF ok
         THEN /\ Exec(c, "insert", conn.view,
                      Append(conn.journal, [operation |-> OperationOf(c), status |-> "pending",
                                            by |-> <<c, call[c].n>>]))
              /\ call' = [call EXCEPT ![c].pc = "update"]
         ELSE /\ Raise(c)
              /\ UNCHANGED <<markets, conn>>
  /\ UNCHANGED svcVars

\* UPDATE markets SET ... WHERE conditionId = ?
TxUpdate(c) ==
  /\ call[c].pc = "update"
  /\ \E ok \in BOOLEAN :
       IF ok
         THEN /\ Exec(c, "update", Mutation(c, conn.view), conn.journal)
              /\ call' = [call EXCEPT ![c].pc = "flip"]
         ELSE /\ Raise(c)
              /\ UNCHANGED <<markets, conn>>
  /\ UNCHANGED svcVars

\* UPDATE operations_journal SET status = 'completed'
\*   WHERE conditionId = ? AND operation = ? AND status = 'pending'
TxFlip(c) ==
  /\ call[c].pc = "flip"
  /\ \E ok \in BOOLEAN :
       IF ok
         THEN /\ Exec(c, "flip", conn.view,
                      [k \in 1..Len(conn.journal) |->
                         IF conn.journal[k].operation = OperationOf(c)
                              /\ conn.journal[k].status = "pending"
                           THEN [conn.journal[k] EXCEPT !.status = "completed"]
                           ELSE conn.journal[k]])
              /\ call' = [call EXCEPT ![c].pc = "commit"]
         ELSE /\ Raise(c)
              /\ UNCHANGED <<markets, conn>>
  /\ UNCHANGED svcVars

\* await db.exec('COMMIT'): an error when no transaction is open
TxCommit(c) ==
  /\ call[c].pc = "commit"
  /\ \E ok \in BOOLEAN :
       IF ok /\ conn.inTx
         THEN /\ markets' = conn.view
              /\ conn' = [conn EXCEPT !.inTx = FALSE, !.committed = conn.journal,
                                      !.last = [by |-> c, stmt |-> "commit", owner |-> conn.owner]]
              /\ call' = [call EXCEPT ![c].pc = "idle", ![c].result = "ok"]
         ELSE /\ Raise(c)
              /\ UNCHANGED <<markets, conn>>
  /\ UNCHANGED svcVars

\* catch: await db.exec('ROLLBACK').catch(log); throw error
TxRollback(c) ==
  /\ call[c].pc = "rollback"
  /\ conn' = IF conn.inTx
               THEN [conn EXCEPT !.inTx = FALSE, !.view = markets, !.journal = conn.committed,
                                 !.last = [by |-> c, stmt |-> "rollback", owner |-> conn.owner]]
               ELSE conn
  /\ call' = [call EXCEPT ![c].pc = "idle", ![c].result = "raised"]
  /\ UNCHANGED <<markets, svcVars>>

\* ------------------------------- one event delivered more than once
\* The paths an event reaches the store by.
Paths == {"historical", "live"}

\* One step of a handler whose reads and store calls all succeed: the frame
\* and the table after it.  The historical path reads the row once and skips
\* the fetches of what that row already has.
IngestStep(f, m, id) ==
  CASE f.pc = "upsert" ->
         [f |-> [f EXCEPT !.pc = "pre_read"], m |-> addOrUpdateMarket(m, id, CreatorOf(id))]
    [] f.pc = "pre_read" ->
         [f |-> [f EXCEPT !.pc = IF ledgerSettled[id] THEN "pre_store"
                                 ELSE IF f.path = "live" THEN "endtime" ELSE "getmarket"],
          m |-> m]
    [] f.pc = "pre_store" ->
         [f |-> [f EXCEPT !.pc = "pre_mark"], m |-> updateMarketSettledOnChain(m, id, TRUE)]
    [] f.pc = "pre_mark" ->
         [f |-> [f EXCEPT !.pc = "pre_token"], m |-> setMarketProcessedForSettlement(m, id)]
    [] f.pc = "pre_token" ->
         [f |-> [f EXCEPT !.pc = IF f.path = "live" THEN "endtime" ELSE "getmarket"],
          m |-> updateMarketWinningTokenId(m, id, toString(ledgerWinner[id]))]
    [] f.pc = "getmarket" ->
         [f |-> [f EXCEPT !.pc = IF ~m[id].present THEN "done"
                                 ELSE IF ~m[id].fetchedEndTime THEN "endtime"
                                 ELSE IF ~m[id].marketQuestion THEN "question"
                                 ELSE "done",
                          !.needQuestion = m[id].present /\ ~m[id].marketQuestion],
          m |-> m]
    [] f.pc = "endtime" ->
         [f |-> [f EXCEPT !.pc = IF f.needQuestion THEN "question" ELSE "done"],
          m |-> IF getMarketEndTime(id) > 0
                  THEN updateMarketEndTime(m, id, getMarketEndTime(id)) ELSE m]
    [] OTHER ->
         [f |-> [f EXCEPT !.pc = "done"], m |-> updateMarketQuestion(m, id)]

\* The event is delivered once more, by either path.
Deliver ==
  /\ Len(deliv.h) < MaxDeliveries
  /\ \E path \in Paths :
       deliv' = [deliv EXCEPT !.h = Append(@, [path |-> path, pc |-> "upsert",
                                               needQuestion |-> path = "live"])]
  /\ UNCHANGED <<markets, now, ledgerSettled, ledgerWinner, txs, isProcessing, run, ing, cli,
                 conn, call, probe, boot>>

\* The handler of delivery d goes on to its next await.
Handle(d) ==
  /\ d \in 1..Len(deliv.h)
  /\ deliv.h[d].pc # "done"
  /\ LET after == IngestStep(deliv.h[d], markets, TxId) IN
       /\ markets' = after.m
       /\ deliv' = [deliv EXCEPT !.h[d] = after.f]
  /\ UNCHANGED <<now, ledgerSettled, ledgerWinner, txs, isProcessing, run, ing, cli,
                 conn, call, probe, boot>>

\* ------------------------------------------------- recoverPendingOperations
\* The payload the operations write into a journal row of entity id.
DataOf(id) ==
  [creator |-> CreatorOf(id), marketEndTime |-> getMarketEndTime(id),
   isSettled |-> TRUE, winningTokenId |-> toString(getYesTokenId(id))]

\* The operations the switch has a case for.
ReplayedOps ==
  {"addOrUpdateMarket", "updateMarketEndTime", "setMarketProcessedForSettlement",
   "updateMarketSettledOnChain", "updateMarketQuestion", "updateMarketWinningTokenId"}

\* switch (op.operation): the statement of the row's case; default: a warning.
Replay(op, m, id, x) ==
  CASE op = "addOrUpdateMarket" -> addOrUpdateMarket(m, id, x.creator)
    [] op = "updateMarketEndTime" ->
         IF m[id].present
           THEN [m EXCEPT ![id].marketEndTime = x.marketEndTime, ![id].fetchedEndTime = TRUE]
           ELSE m
    [] op = "setMarketProcessedForSettlement" -> setMarketProcessedForSettlement(m, id)
    [] op = "updateMarketSettledOnChain" -> updateMarketSettledOnChain(m, id, x.isSettled)
    [] op = "updateMarketQuestion" -> updateMarketQuestion(m, id)
    [] op = "updateMarketWinningTokenId" -> updateMarketWinningTokenId(m, id, x.winningTokenId)
    [] OTHER -> m

\* SELECT * FROM operations_journal WHERE status = 'pending'
PendingOps(journal) ==
  LET S == {j \in 1..Len(journal) : journal[j].status = "pending"}
      F[T \in SUBSET S] ==
        IF T = {} THEN <<>>
        ELSE LET j == CHOOSE a \in T : \A b \in T : a <= b IN <<j>> \o F[T \ {j}]
  IN F[S]

\* A statement of recovery, run on the connection outside any transaction.
Autocommit(m2, journal2) ==
  /\ markets' = m2
  /\ conn' = [conn EXCEPT !.view = m2, !.journal = journal2, !.committed = journal2]

\* The next row of the loop, or the end of the invocation.
Advance(f) ==
  [f EXCEPT !.k = @ + 1, !.pc = IF f.k + 1 = Len(f.ops) THEN "done" ELSE "replay"]

\* await dbPromise; const pendingOps = await db.all(...)
RecSelect(h) ==
  /\ boot.rec[h].pc = "select"
  /\ \E ok \in BOOLEAN :
       boot' = [boot EXCEPT !.rec[h] =
                  IF ok /\ PendingOps(conn.journal) # <<>>
                    THEN [pc |-> "replay", ops |-> PendingOps(conn.journal), k |-> 0]
                    ELSE [pc |-> "done", ops |-> <<>>, k |-> 0]]
  /\ UNCHANGED <<markets, now, ledgerSettled, ledgerWinner, txs, isProcessing, run, ing, cli,
                 conn, call, probe, deliv>>

\* the switch on op.operation, for the row the loop is at
RecReplay(h) ==
  /\ boot.rec[h].pc = "replay"
  /\ LET j == boot.rec[h].ops[boot.rec[h].k + 1]
         op == conn.journal[j].operation
     IN \E ok \in BOOLEAN :
          IF ok \/ op \notin ReplayedOps
            THEN /\ Autocommit(Replay(op, markets, TxId, DataOf(TxId)), conn.journal)
                 /\ boot' = [boot EXCEPT
                      !.rec[h].pc = "mark",
                      !.replayed = IF op \in ReplayedOps
                                     THEN Append(@, [by |-> h, row |-> j,
                                                     status |-> conn.journal[j].status,
                                                     served |-> boot.served])
                                     ELSE @]
            ELSE /\ boot' = [boot EXCEPT !.rec[h].pc = "fail", !.raised = @ \cup {j}]
                 /\ UNCHANGED <<markets, conn>>
  /\ UNCHANGED <<now, ledgerSettled, ledgerWinner, txs, isProcessing, run, ing, cli,
                 call, probe, deliv>>

\* UPDATE operations_journal SET status = 'completed' WHERE id = ?
RecMark(h) ==
  /\ boot.rec[h].pc = "mark"
  /\ LET j == boot.rec[h].ops[boot.rec[h].k + 1] IN
     \E ok \in BOOLEAN :
       IF ok
         THEN /\ Autocommit(markets, [conn.journal EXCEPT ![j].status = "completed"])
              /\ boot' = [boot EXCEPT !.rec[h] = Advance(@)]
         ELSE /\ boot' = [boot EXCEPT !.rec[h].pc = "fail", !.raised = @ \cup {j}]
              /\ UNCHANGED <<markets, conn>>
  /\ UNCHANGED <<now, ledgerSettled, ledgerWinner, txs, isProcessing, run, ing, cli,
                 call, probe, deliv>>

\* catch (opError): UPDATE operations_journal SET status = 'failed' WHERE id = ?;
\* an error here ends the invocation in the outer catch
RecFail(h) ==
  /\ boot.rec[h].pc = "fail"
  /\ LET j == boot.rec[h].ops[boot.rec[h].k + 1] IN
     \E ok \in BOOLEAN :
       IF ok
         THEN /\ Autocommit(markets, [conn.journal EXCEPT ![j].status = "failed"])
              /\ boot' = [boot EXCEPT !.rec[h] = Advance(@)]
         ELSE /\ boot' = [boot EXCEPT !.rec[h].pc = "done"]
              /\ UNCHANGED <<markets, conn>>
  /\ UNCHANGED <<now, ledgerSettled, ledgerWinner, txs, isProcessing, run, ing, cli,
                 call, probe, deliv>>

\* main: after await database.recoverPendingOperations(), the blockchain
\* service, the event listener and the settlement job are started
MainArm ==
  /\ boot.main = "recover"
  /\ boot.rec["main"].pc = "done"
  /\ boot' = [boot EXCEPT !.main = "serving"]
  /\ UNCHANGED <<markets, now, ledgerSettled, ledgerWinner, txs, isProcessing, run, ing, cli,
                 conn, call, probe, deliv>>

\* The first store operations of the service: the listener's addOrUpdateMarket,
\* the settlement job's updateMarketSettledOnChain, each with its journal row.
ServiceWrite ==
  /\ boot.main = "serving"
  /\ boot.served < MaxWrites
  /\ \E op \in {"addOrUpdateMarket", "updateMarketSettledOnChain"} :
       Autocommit(Apply(op, markets, TxId, [DataOf(TxId) EXCEPT !.isSettled = FALSE]),
                  Append(conn.journal, [operation |-> op, status |-> "completed",
                                        by |-> <<"service", boot.served + 1>>]))
  /\ boot' = [boot EXCEPT !.served = @ + 1]
  /\ UNCHANGED <<now, ledgerSettled, ledgerWinner, txs, isProcessing, run, ing, cli,
                 call, probe, deliv>>

\* ------------------------------------------------- metadata backfill jobs
\* checkAndFetchMissingEndTimes ("endTimes") and checkAndFetchMissingQuestions
\* ("questions").  In the specification of the jobs probe holds their memory:
\* busy[j] is the job's lock (isFetchingEndTimes, isFetchingQuestions),
\* at[j][r] the position of invocation r, batch[j] the rows its query
\* returned, and turnedAway[j] whether an invocation of j returned at the
\* guard during the run in progress.

\* Faulty variant: one lock for all the jobs.
AnyJobBusy(j) == isProcessing \/ \E q \in DOMAIN probe.busy : probe.busy[q]

\* if (isFetchingEndTimes) / if (isFetchingQuestions)
Fetching(j) == probe.busy[j]

\* The timer fires: the guard, and the lock taken when it was free.  (The
\* invocations of a job are interchangeable: the lowest idle one is taken.)
FetchInvoke(j, r) ==
  /\ probe.at[j][r] = "idle"
  /\ \A q \in Runs : q < r => probe.at[j][q] # "idle"
  /\ probe' = IF Fetching(j)
                THEN [probe EXCEPT !.turnedAway[j] = TRUE]
                ELSE [probe EXCEPT !.busy[j] = TRUE, !.at[j][r] = "fetch"]
  /\ UNCHANGED <<markets, now, ledgerSettled, ledgerWinner, txs, isProcessing, run, ing, cli,
                 conn, call, boot, deliv>>

\* LIMIT 50 of getMarketsMissingEndTime and getMarketsMissingQuestion.
BatchLimit == 50

\* SELECT * FROM markets WHERE fetchedEndTime = 0 OR marketEndTime IS NULL (or
\* WHERE marketQuestion IS NULL) ORDER BY createdAt ASC LIMIT 50: the oldest
\* rows that miss the value; rows are numbered in the order of their creation.
getMarketsMissing(j, m) ==
  LET missing == {i \in DOMAIN m :
                    /\ m[i].present
                    /\ IF j = "endTimes"
                         THEN ~m[i].fetchedEndTime \/ m[i].marketEndTime = 0
                         ELSE ~m[i].marketQuestion}
  IN {i \in missing : Cardinality({o \in missing : o < i}) < BatchLimit}

\* const markets = await db.getMarketsMissingEndTime() (or ...Question()); a
\* rejected query ends the run in the job's catch and finally.
FetchSelect(j, r) ==
  /\ probe.at[j][r] = "fetch"
  /\ \E ok \in BOOLEAN :
       probe' = IF ok
                  THEN [probe EXCEPT !.at[j][r] = "store",
                                     !.batch[j] = getMarketsMissing(j, markets)]
                  ELSE [probe EXCEPT !.busy[j] = FALSE, !.at[j][r] = "idle",
                                     !.turnedAway[j] = FALSE]
  /\ UNCHANGED <<markets, now, ledgerSettled, ledgerWinner, txs, isProcessing, run, ing, cli,
                 conn, call, boot, deliv>>

\* fetchMissingMarketEndTimes / fetchMissingMarketQuestions: the loop over the
\* selected rows.  The value is stored for a row when its fetch succeeds: not
\* when the ledger cannot be reached during the run, and never for the rows in
\* probe.failing, whose read fails every time (an error, end time 0, an empty
\* question); the error of a row is swallowed.  When the awaited call
\* returns, finally releases the lock.
FetchMissing(j, r) ==
  /\ probe.at[j][r] = "store"
  /\ \E up \in BOOLEAN :
       LET done == IF up THEN probe.batch[j] \ probe.failing ELSE {} IN
       Write([i \in DOMAIN markets |->
                IF i \notin done THEN markets[i]
                ELSE IF j = "endTimes"
                  THEN IF getMarketEndTime(i) > 0
                         THEN updateMarketEndTime(markets, i, getMarketEndTime(i))[i]
                         ELSE markets[i]
                  ELSE updateMarketQuestion(markets, i)[i]])
  /\ probe' = [probe EXCEPT !.busy[j] = FALSE, !.at[j][r] = "idle", !.turnedAway[j] = FALSE,
                            !.batch[j] = {}]
  /\ UNCHANGED <<now, ledgerSettled, ledgerWinner, txs, isProcessing, ing, cli,
                 conn, call, boot, deliv>>

\* ------------------------------------------------------------ main, step by step
\* boot.armed is what main has armed: the event listener, the settlement job
\* (its cron task and startup timer) and the backfill jobs (theirs).
\* process.exit(1): the process is gone, with whatever it had armed.
ExitOne(b, step) ==
  [b EXCEPT !.main = "exited", !.armed = {}, !.failed = @ \cup {step}]

\* import config: the required settings are looked up; any missing: exit(1).
StartConfig ==
  /\ boot.main = "load"
  /\ \E ok \in BOOLEAN :
       boot' = IF ok THEN [boot EXCEPT !.main = "recover"] ELSE ExitOne(boot, "config")
  /\ UNCHANGED <<markets, now, ledgerSettled, ledgerWinner, txs, isProcessing, run, ing, cli,
                 conn, call, probe, deliv>>

\* await initializeBlockchainService(), after main's recovery has returned;
\* its error is rethrown to main's catch: logger.fatal, process.exit(1).
StartChain ==
  /\ boot.main = "recover"
  /\ boot.rec["main"].pc = "done"
  /\ \E ok \in BOOLEAN :
       boot' = IF ok THEN [boot EXCEPT !.main = "listen"] ELSE ExitOne(boot, "chain")
  /\ UNCHANGED <<markets, now, ledgerSettled, ledgerWinner, txs, isProcessing, run, ing, cli,
                 conn, call, probe, deliv>>

\* listenForMarketCreatedEvents()
StartListen ==
  /\ boot.main = "listen"
  /\ boot' = [boot EXCEPT !.main = "schedule", !.armed = @ \cup {"listener"}]
  /\ UNCHANGED <<markets, now, ledgerSettled, ledgerWinner, txs, isProcessing, run, ing, cli,
                 conn, call, probe, deliv>>

\* startMarketProcessorJob(): if (!cron.validate(cronSchedule)) { log; return },
\* else the cron tasks and the startup timers; then main logs that it runs.
StartJob ==
  /\ boot.main = "schedule"
  /\ \E valid \in BOOLEAN :
       boot' = IF valid
                 THEN [boot EXCEPT !.main = "running",
                                   !.armed = @ \cup {"settlement", "backfill"}]
                 ELSE [boot EXCEPT !.main = "running", !.failed = @ \cup {"cron"}]
  /\ UNCHANGED <<markets, now, ledgerSettled, ledgerWinner, txs, isProcessing, run, ing, cli,
                 conn, call, probe, deliv>>

\* ------------------------------------------------------------ specification
JobStep(r) ==
  \/ Invoke(r) \/ Query(r) \/ Loop(r)
  \/ ChkRead(r) \/ ChkStore(r) \/ ChkMark(r)
  \/ PRead(r) \/ PAsMark(r) \/ PAsStore(r) \/ PGetMarket(r) \/ PFetchQuestion(r)
  \/ PEndTime(r) \/ Oracle(r) \/ Resolve(r) \/ Submit(r) \/ Wait(r)
  \/ SMark(r) \/ SStore(r) \/ SToken(r) \/ PInc(r) \/ IterEnd(r) \/ Finally(r)

IngStep(id) ==
  \/ LiveEvent(id) \/ IngPreRead(id) \/ IngPreStore(id) \/ IngPreMark(id)
  \/ IngPreToken(id) \/ IngEndTime(id) \/ IngQuestion(id)

Next ==
  \/ \E r \in Runs : JobStep(r)
  \/ \E id \in Ids : IngStep(id)
  \/ \E n \in 1..MaxSubmits : Mine(n)
  \/ Tick
  \/ Crash

Spec == Init /\ [][Next]_vars

\* The store alone: the row is there, and the callers issue their operations.
InitTx ==
  /\ markets = StoredTable
  /\ conn = ConnInit(StoredTable)
  /\ call = [c \in TxCallers |-> IdleCall]
  /\ now = 0
  /\ ledgerSettled = [i \in Ids |-> FALSE]
  /\ ledgerWinner = [i \in Ids |-> 0]
  /\ txs = <<>>
  /\ isProcessing = FALSE
  /\ run = [r \in Runs |-> IdleRun]
  /\ ing = [i \in Ids |-> "idle"]
  /\ cli = IdleCli
  /\ probe = NoProbe
  /\ boot = NoBoot
  /\ deliv = NoDeliv

TxStep(c) ==
  \/ TxCall(c) \/ TxBegin(c) \/ TxInsert(c) \/ TxUpdate(c)
  \/ TxFlip(c) \/ TxCommit(c) \/ TxRollback(c)

NextTx == \E c \in TxCallers : TxStep(c)

SpecTx == InitTx /\ [][NextTx]_vars

\* The store's operations alone, called in any order with any arguments.
InitStore ==
  /\ markets = [i \in Ids |-> NoRow]
  /\ conn = ConnInit([i \in Ids |-> NoRow])
  /\ call = [c \in TxCallers |-> IdleCall]
  /\ now = 0
  /\ ledgerSettled = [i \in Ids |-> FALSE]
  /\ ledgerWinner = [i \in Ids |-> 0]
  /\ txs = <<>>
  /\ isProcessing = FALSE
  /\ run = [r \in Runs |-> IdleRun]
  /\ ing = [i \in Ids |-> "idle"]
  /\ cli = IdleCli
  /\ probe = NoProbe
  /\ boot = NoBoot
  /\ deliv = NoDeliv

\* One operation of the store, committed.
StoreCall ==
  \E op \in StoreOps, id \in Ids, x \in StoreArgs :
    /\ op = "incrementMarketRetryCount" => markets[id].retries < maxRetries
    /\ markets' = Apply(op, markets, id, x)
    /\ probe' = [op |-> op, id |-> id, x |-> x, before |-> markets[id],
                  changes |-> Changes(op, markets, id, x)]
    /\ UNCHANGED <<now, ledgerSettled, ledgerWinner, txs, isProcessing, run, ing, cli,
                   conn, call, boot, deliv>>

SpecStore == InitStore /\ [][StoreCall]_vars

\* The reset command run on a store the service is not writing to.
StoreCallQuiet == cli.pc = "idle" /\ StoreCall

CliStep == (\E id \in Ids : CliReset(id)) \/ CliResetProcessed \/ CliResetRetries

NextCli == StoreCallQuiet \/ CliStep

SpecCli == InitStore /\ [][NextCli]_vars

\* Startup on a store a previous process left: the row, and journal rows of
\* any operation, pending or completed.
LeftRows ==
  {StoredTable[TxId],
   [StoredTable[TxId] EXCEPT !.processedForSettlement = TRUE, !.retries = 1]}

LeftJournals ==
  UNION { [1..n -> [operation : StoreOps, status : {"pending", "completed"},
                    by : {<<"previous", 0>>}]] : n \in 0..MaxJournal }

InitBoot ==
  /\ \E row \in LeftRows, journal \in LeftJournals :
       /\ markets = [i \in Ids |-> row]
       /\ conn = [ConnInit([i \in Ids |-> row]) EXCEPT !.journal = journal,
                                                        !.committed = journal]
       /\ boot = [NoBoot EXCEPT !.before = row,
                                !.pending0 = Range(PendingOps(journal))]
  /\ call = [c \in TxCallers |-> IdleCall]
  /\ now = 0
  /\ ledgerSettled = [i \in Ids |-> FALSE]
  /\ ledgerWinner = [i \in Ids |-> 0]
  /\ txs = <<>>
  /\ isProcessing = FALSE
  /\ run = [r \in Runs |-> IdleRun]
  /\ ing = [i \in Ids |-> "idle"]
  /\ cli = IdleCli
  /\ probe = NoProbe
  /\ deliv = NoDeliv

RecStep(h) == RecSelect(h) \/ RecReplay(h) \/ RecMark(h) \/ RecFail(h)

NextBoot == (\E h \in RecoveryCalls : RecStep(h)) \/ MainArm \/ ServiceWrite

SpecBoot == InitBoot /\ [][NextBoot]_vars

\* One creation event and its deliveries, on a ledger that answers every read
\* the same way: the market settled or not, its end time and question fixed.
InitIngest ==
  /\ \E row \in {NoRow} \cup LeftRows, settled \in BOOLEAN :
       /\ markets = [i \in Ids |-> row]
       /\ conn = ConnInit([i \in Ids |-> row])
       /\ deliv = [NoDeliv EXCEPT !.before = row]
       /\ ledgerSettled = [i \in Ids |-> settled]
       /\ ledgerWinner = [i \in Ids |-> IF settled THEN getYesTokenId(i) ELSE 0]
  /\ call = [c \in TxCallers |-> IdleCall]
  /\ now = 0
  /\ txs = <<>>
  /\ isProcessing = FALSE
  /\ run = [r \in Runs |-> IdleRun]
  /\ ing = [i \in Ids |-> "idle"]
  /\ cli = IdleCli
  /\ probe = NoProbe
  /\ boot = NoBoot

NextIngest == Deliver \/ \E d \in 1..MaxDeliveries : Handle(d)

SpecIngest == InitIngest /\ [][NextIngest]_vars

\* The settlement job under fairness: the timer keeps firing, every call
\* returns (with a result or an error), the store itself does not fail, and
\* a transaction sent is mined.  The entity is in the table and its end time
\* and the delay are past.
DueTable ==
  {[i \in Ids |-> [StoredTable[i] EXCEPT !.marketEndTime = getMarketEndTime(i),
                                         !.fetchedEndTime = TRUE,
                                         !.marketQuestion = q]] : q \in BOOLEAN}

InitLive ==
  /\ \E m \in DueTable :
       /\ markets = m
       /\ conn = ConnInit(m)
  /\ call = [c \in TxCallers |-> IdleCall]
  /\ now = MaxTime
  /\ ledgerSettled = [i \in Ids |-> FALSE]
  /\ ledgerWinner = [i \in Ids |-> 0]
  /\ txs = <<>>
  /\ isProcessing = FALSE
  /\ run = [r \in Runs |-> IdleRun]
  /\ ing = [i \in Ids |-> "idle"]
  /\ cli = IdleCli
  /\ probe = NoProbe
  /\ boot = NoBoot
  /\ deliv = NoDeliv

\* A step of the job in which no call to the store is the one that fails.
StoreUp ==
  \A r \in Runs :
    /\ run'[r].att.err # "store"
    /\ ~(run[r].pc = "query" /\ run'[r].pc = "finally")

JobRuns == (\E r \in Runs : JobStep(r)) /\ StoreUp

Mined == \E n \in 1..MaxSubmits : Mine(n)

NextLive == JobRuns \/ Mined

SpecLive == InitLive /\ [][NextLive]_vars /\ WF_vars(JobRuns) /\ WF_vars(Mined)

\* The oracle call alone: any response, with or without a conditionId, and
\* any behaviour of the sink.
InitAudit ==
  /\ markets = StoredTable
  /\ conn = ConnInit(StoredTable)
  /\ call = [c \in TxCallers |-> IdleCall]
  /\ now = 0
  /\ ledgerSettled = [i \in Ids |-> FALSE]
  /\ ledgerWinner = [i \in Ids |-> 0]
  /\ txs = <<>>
  /\ isProcessing = FALSE
  /\ run = [r \in Runs |-> IdleRun]
  /\ ing = [i \in Ids |-> "idle"]
  /\ cli = IdleCli
  /\ \E resp \in OracleResponses, conditionId \in {0} \cup Ids, sink \in SinkOutcomes :
       probe = [op |-> "call", resp |-> resp, conditionId |-> conditionId, sink |-> sink]
  /\ boot = NoBoot
  /\ deliv = NoDeliv

\* const aiAnalysis = await getMarketSettlementAnalysis(...)
AuditAnalyse ==
  /\ probe.op = "call"
  /\ probe' = [op |-> "analysis", resp |-> probe.resp, conditionId |-> probe.conditionId,
                sink |-> probe.sink,
                out |-> AnalysisRecorded(probe.resp, probe.conditionId, probe.sink)]
  /\ UNCHANGED <<markets, now, ledgerSettled, ledgerWinner, txs, isProcessing, run, ing, cli,
                 conn, call, boot, deliv>>

\* if (aiAnalysis && aiAnalysis.answer) { ... } else { return failure }
AuditDecide ==
  /\ probe.op = "analysis"
  /\ probe' = [op |-> "decision", resp |-> probe.resp, conditionId |-> probe.conditionId,
                sink |-> probe.sink, out |-> probe.out,
                decision |-> SettlementDecision(probe.out.analysis, TxId)]
  /\ UNCHANGED <<markets, now, ledgerSettled, ledgerWinner, txs, isProcessing, run, ing, cli,
                 conn, call, boot, deliv>>

NextAudit == AuditAnalyse \/ AuditDecide

SpecAudit == InitAudit /\ [][NextAudit]_vars

\* The reset command run beside the settlement job, on a market whose failed
\* attempts have brought it to the retry ceiling or one below it.
FailedTable ==
  {[i \in Ids |-> [StoredTable[i] EXCEPT !.marketEndTime = getMarketEndTime(i),
                                         !.fetchedEndTime = TRUE,
                                         !.marketQuestion = q,
                                         !.retries = n]] :
     n \in {maxRetries - 1, maxRetries}, q \in BOOLEAN}

InitReset ==
  /\ \E m \in FailedTable :
       /\ markets = m
       /\ conn = ConnInit(m)
  /\ call = [c \in TxCallers |-> IdleCall]
  /\ now = MaxTime
  /\ ledgerSettled = [i \in Ids |-> FALSE]
  /\ ledgerWinner = [i \in Ids |-> 0]
  /\ txs = <<>>
  /\ isProcessing = FALSE
  /\ run = [r \in Runs |-> IdleRun]
  /\ ing = [i \in Ids |-> "idle"]
  /\ cli = IdleCli
  /\ probe = NoProbe
  /\ boot = NoBoot
  /\ deliv = NoDeliv

NextReset == CliStep \/ (\E r \in Runs : JobStep(r)) \/ Mined

SpecReset == InitReset /\ [][NextReset]_vars

\* Startup of the service from the loading of its modules, on a store a
\* previous process left.
InitStart ==
  /\ \E row \in {StoredTable[TxId]}, journal \in LeftJournals, settled \in BOOLEAN :
       /\ markets = [i \in Ids |-> row]
       /\ conn = [ConnInit([i \in Ids |-> row]) EXCEPT !.journal = journal,
                                                        !.committed = journal]
       /\ boot = [NoBoot EXCEPT !.main = "load", !.before = row,
                                !.pending0 = Range(PendingOps(journal))]
       /\ ledgerSettled = [i \in Ids |-> settled]
       /\ ledgerWinner = [i \in Ids |-> IF settled THEN getYesTokenId(i) ELSE 0]
  /\ call = [c \in TxCallers |-> IdleCall]
  /\ now = 0
  /\ txs = <<>>
  /\ isProcessing = FALSE
  /\ run = [r \in Runs |-> IdleRun]
  /\ ing = [i \in Ids |-> "idle"]
  /\ cli = IdleCli
  /\ probe = NoProbe
  /\ deliv = NoDeliv

\* main's steps; the recovery invocations, once the store module is loaded;
\* the armed listener handling an event.
NextStart ==
  \/ StartConfig \/ StartChain \/ StartListen \/ StartJob
  \/ (boot.main \notin {"load", "exited"} /\ \E h \in RecoveryCalls : RecStep(h))
  \/ ("listener" \in boot.armed /\ \E id \in Ids : IngStep(id))

SpecStart == InitStart /\ [][NextStart]_vars

\* One run of the settlement job over a table of two due markets, the second
\* ending after the first and still without its question text; the clock is
\* past both end times and the delay.
PairIds == {1, 2}

InitPair ==
  /\ markets = [i \in PairIds |-> [NoRow EXCEPT !.present = TRUE,
                                                !.marketCreator = CreatorOf(i),
                                                !.marketQuestion = (i = 1),
                                                !.marketEndTime = getMarketEndTime(i),
                                                !.fetchedEndTime = TRUE]]
  /\ conn = ConnInit(markets)
  /\ call = [c \in TxCallers |-> IdleCall]
  /\ now = getMarketEndTime(2) + SettlementDelay + 1
  /\ ledgerSettled = [i \in PairIds |-> FALSE]
  /\ ledgerWinner = [i \in PairIds |-> 0]
  /\ txs = <<>>
  /\ isProcessing = FALSE
  /\ run = [r \in Runs |-> IdleRun]
  /\ ing = [i \in PairIds |-> "idle"]
  /\ cli = IdleCli
  /\ probe = NoProbe
  /\ boot = NoBoot
  /\ deliv = NoDeliv

NextPair == (\E r \in Runs : JobStep(r)) \/ Mined

SpecPair == InitPair /\ [][NextPair]_vars

\* The settlement job beside the two backfill jobs, each fired by its timers
\* at any time, on a market stored without end time and question.
InitJobs ==
  /\ markets = StoredTable
  /\ conn = ConnInit(StoredTable)
  /\ call = [c \in TxCallers |-> IdleCall]
  /\ now = MaxTime
  /\ ledgerSettled = [i \in Ids |-> FALSE]
  /\ ledgerWinner = [i \in Ids |-> 0]
  /\ txs = <<>>
  /\ isProcessing = FALSE
  /\ run = [r \in Runs |-> IdleRun]
  /\ ing = [i \in Ids |-> "idle"]
  /\ cli = IdleCli
  /\ probe = [op |-> "jobs",
              busy |-> [j \in {"endTimes", "questions"} |-> FALSE],
              at |-> [j \in {"endTimes", "questions"} |-> [r \in Runs |-> "idle"]],
              batch |-> [j \in {"endTimes", "questions"} |-> {}],
              failing |-> {},
              turnedAway |-> [j \in {"endTimes", "questions"} |-> FALSE]]
  /\ boot = NoBoot
  /\ deliv = NoDeliv

NextJobs ==
  \/ \E r \in Runs : JobStep(r)
  \/ \E j \in {"endTimes", "questions"}, r \in Runs :
       FetchInvoke(j, r) \/ FetchSelect(j, r) \/ FetchMissing(j, r)
  \/ Mined

SpecJobs == InitJobs /\ [][NextJobs]_vars

\* The settlement job under the same fairness, with calls to the store that
\* may fail: fairness is asked only of the steps in which the store works.
SpecFaults == InitLive /\ [][NextPair]_vars /\ WF_vars(JobRuns) /\ WF_vars(Mined)

\* The backfill jobs alone under fairness, on a table of one row more than a
\* batch holds, every row without end time and question.  For the oldest n
\* rows the ledger's reads fail every time; the timers of both jobs keep
\* firing, every call returns and the store answers its queries.
InitBackfill ==
  /\ markets = [i \in 1..(BatchLimit + 1) |->
                  [NoRow EXCEPT !.present = TRUE, !.marketCreator = CreatorOf(i)]]
  /\ conn = ConnInit(markets)
  /\ call = [c \in TxCallers |-> IdleCall]
  /\ now = 0
  /\ ledgerSettled = [i \in 1..(BatchLimit + 1) |-> FALSE]
  /\ ledgerWinner = [i \in 1..(BatchLimit + 1) |-> 0]
  /\ txs = <<>>
  /\ isProcessing = FALSE
  /\ run = [r \in Runs |-> IdleRun]
  /\ ing = [i \in 1..(BatchLimit + 1) |-> "idle"]
  /\ cli = IdleCli
  /\ \E n \in 0..(BatchLimit + 1) :
       probe = [op |-> "jobs",
                busy |-> [j \in {"endTimes", "questions"} |-> FALSE],
                at |-> [j \in {"endTimes", "questions"} |-> [r \in Runs |-> "idle"]],
                batch |-> [j \in {"endTimes", "questions"} |-> {}],
                failing |-> 1..n,
                turnedAway |-> [j \in {"endTimes", "questions"} |-> FALSE]]
  /\ boot = NoBoot
  /\ deliv = NoDeliv

\* A step of a run of job j in which the query of the store is answered.
BackfillRuns(j) ==
  \E r \in Runs :
    /\ FetchInvoke(j, r) \/ FetchSelect(j, r) \/ FetchMissing(j, r)
    /\ probe.at[j][r] = "fetch" => probe'.at[j][r] = "store"

NextBackfill == \E j \in {"endTimes", "questions"} : BackfillRuns(j)

SpecBackfill ==
  /\ InitBackfill /\ [][NextBackfill]_vars
  /\ \A j \in {"endTimes", "questions"} : WF_vars(BackfillRuns(j))

\* ============================================================== properties
Incs(ops) == Cardinality({k \in 1..Len(ops) : ops[k] = "inc"})
EffectsOn(i) == {n \in 1..Len(txs) : txs[n].id = i /\ txs[n].st = "effect"}
RecordedOn(i) == {n \in 1..Len(txs) : txs[n].id = i /\ txs[n].acked}

\* C1: per entity, at most one settle transaction takes effect on the ledger
\* and at most one confirmed receipt is recorded locally (the entity reaches
\* Settled at most once), whatever fails and however often the process
\* restarts.
C1_AtMostOnceEffective ==
  \A i \in Ids :
    /\ Cardinality(EffectsOn(i)) <= 1
    /\ Cardinality(RecordedOn(i)) <= 1

\* C2: getMarketsToProcess returns an entity exactly when its end time is
\* known and flagged fetched, end time + delay < now, it is neither processed
\* nor settled on the ledger, and its retries are below 3; changing any single
\* term removes an eligible entity from the result.
C2_Eligible(row, t) ==
  /\ row.present
  /\ row.fetchedEndTime /\ row.marketEndTime # 0
  /\ row.marketEndTime + 1 < t
  /\ ~row.processedForSettlement
  /\ ~row.isSettledOnChain
  /\ row.retries < 3

C2_OneTermChanged(row) ==
  { [row EXCEPT !.fetchedEndTime = FALSE],
    [row EXCEPT !.marketEndTime = 0],
    [row EXCEPT !.processedForSettlement = TRUE],
    [row EXCEPT !.isSettledOnChain = TRUE],
    [row EXCEPT !.retries = 3] }

C2_Query ==
  \A i \in Ids :
    /\ i \in Range(getMarketsToProcess(markets, now)) <=> C2_Eligible(markets[i], now)
    /\ C2_Eligible(markets[i], now) =>
         /\ \A v \in C2_OneTermChanged(markets[i]) :
              i \notin Range(getMarketsToProcess([markets EXCEPT ![i] = v], now))
         /\ i \notin Range(getMarketsToProcess(markets, markets[i].marketEndTime + 1))

C2_Snapshot ==
  \A r \in Runs :
    (run[r].pc = "query" /\ run'[r].pc = "loop") =>
      Range(run'[r].snap) = {i \in Ids : C2_Eligible(markets[i], now)}

\* C2: the query returns exactly the eligible entities, in every state and in
\* the snapshot each run takes.
C2_EligibleIff == []C2_Query /\ [][C2_Snapshot]_vars

C2_Witness ==
  \E r \in Runs :
    /\ run[r].pc = "loop" /\ run[r].k = 0 /\ run[r].snap # <<>>
    /\ markets[run[r].snap[1]].retries = 2
    /\ C2_Eligible(markets[run[r].snap[1]], now)

\* C3: every mutating store operation is atomic: when it raises, neither its
\* mutation nor its journal row is in the committed state; when it returns,
\* both are; and the committed state never holds one of the two without the
\* other.
TxJournalOf(c) ==
  {k \in 1..Len(conn.committed) : conn.committed[k].by = <<c, call[c].n>>}

TxApplied(c, row) ==
  CASE c = "job" -> row.retries > call[c].before.retries
    [] c = "handler" -> row.processedForSettlement
    [] OTHER -> row.marketQuestion

TxWouldChange(c) ==
  CASE c = "job" -> TRUE
    [] c = "handler" -> ~call[c].before.processedForSettlement
    [] OTHER -> ~call[c].before.marketQuestion

\* C3: a store operation leaves both of its writes in the committed state or
\* neither, and raises only in the second case.
C3_OperationsAtomic ==
  \A c \in TxCallers :
    /\ call[c].result = "raised" =>
         /\ TxJournalOf(c) = {}
         /\ TxWouldChange(c) => ~TxApplied(c, markets[TxId])
    /\ call[c].result = "ok" =>
         /\ TxJournalOf(c) # {}
         /\ \A k \in TxJournalOf(c) : conn.committed[k].status = "completed"
         /\ TxApplied(c, markets[TxId])
    /\ (call[c].n > 0 /\ TxWouldChange(c)) =>
         (TxJournalOf(c) # {} <=> TxApplied(c, markets[TxId]))

\* C4: store transactions are serialized on the connection: no statement, COMMIT
\* or ROLLBACK of one operation runs inside, commits or rolls back the open
\* transaction of another.
C4_TransactionsSerialized ==
  conn.last.owner \in {"none", conn.last.by}

\* C5: an invocation that fires while a run is in progress returns at once and
\* touches nothing; at most one invocation is ever past the guard; a run takes
\* the entities of its own first query, each once, and all of them when its
\* loop completes.
C5_OneRun ==
  /\ Cardinality({r \in Runs : run[r].pc # "idle"}) <= 1
  /\ \A r \in Runs :
       /\ run[r].pc # "idle" => isProcessing
       /\ run[r].k <= Len(run[r].snap)
       /\ Cardinality(Range(run[r].snap)) = Len(run[r].snap)
       /\ run[r].att.id # 0 => run[r].att.id = run[r].snap[run[r].k]
       /\ (run[r].pc = "finally" /\ run[r].att.id = 0) => run[r].k = Len(run[r].snap)

C5_TurnedAway ==
  \A r \in Runs :
    /\ (run[r].pc = "idle" /\ isProcessing) => run'[r].pc = "idle"
    /\ (run'[r].turnedAway /\ ~run[r].turnedAway) =>
         /\ UNCHANGED <<markets, txs, isProcessing, ledgerSettled>>
         /\ run'[r] = [run[r] EXCEPT !.turnedAway = TRUE]

\* C5: one run at a time, and an invocation turned away changes nothing.
C5_SkipIfBusy == []C5_OneRun /\ [][C5_TurnedAway]_vars

C5_Witness ==
  \E r \in Runs :
    /\ run[r].turnedAway
    /\ run[r].pc = "finally" /\ run[r].att.id = 0
    /\ run[r].k = 1 /\ Len(run[r].snap) = 1

\* C6: in every committed state of the store, an entity flagged processed is
\* flagged settled on the ledger or has a winning token recorded.
C6_ProcessedImpliesSettled ==
  \A i \in Ids :
    markets[i].processedForSettlement =>
      (markets[i].isSettledOnChain \/ markets[i].winningTokenId # <<>>)

\* C7: an attempt of the pipeline that fails on a transient I/O error at any step (the
\* ledger's settled-flag read, its end-time read, the oracle, the token
\* resolution, the settle submission, the confirmation wait) increments the
\* entity's retries by exactly one and leaves it unprocessed.
C7_TransientError ==
  {"settledRead", "endTimeRead", "oracle", "resolve", "submit", "wait"}

\* C7: a pipeline attempt failed by a transient I/O error has incremented the
\* retries exactly once.
C7_FailureCountsOneRetry ==
  \A r \in Runs :
    LET a == run[r].att IN
    (run[r].pc = "iter_end" /\ a.result = "failure"
       /\ a.err \in C7_TransientError) =>
      /\ Incs(a.ops) = 1
      /\ "processed" \notin Range(a.ops)
      /\ ~a.dirty => /\ markets[a.id].retries = a.rec0.retries + 1
                     /\ ~markets[a.id].processedForSettlement

\* C8: an oracle answer that is a string outside {YES, NO} is rejected: no
\* token is resolved, no transaction submitted, the attempt fails, retries go
\* up by exactly one and processed, settled and winning token stay as they were.
C8_Rejected(resp) == resp.ok /\ resp.answer \notin {"YES", "NO", "null", "none"}

\* C8: an answer outside the outcomes is rejected and counted as one retry.
C8_BadAnswerRejected ==
  \A r \in Runs :
    LET a == run[r].att  row == markets[run[r].att.id] IN
    (a.id # 0 /\ C8_Rejected(a.resp)) =>
      /\ run[r].pc \in {"p_inc", "iter_end"}
      /\ a.analysis = NoAnalysis /\ a.token = 0 /\ a.tx = 0
      /\ "processed" \notin Range(a.ops) /\ "token" \notin Range(a.ops)
      /\ run[r].pc = "iter_end" =>
           /\ a.result = "failure"
           /\ a.err # "store" =>
                /\ Incs(a.ops) = 1
                /\ ~a.dirty => row.retries = a.rec0.retries + 1
      /\ ~a.dirty =>
           /\ row.processedForSettlement = a.rec0.processedForSettlement
           /\ row.isSettledOnChain = a.rec0.isSettledOnChain
           /\ row.winningTokenId = a.rec0.winningTokenId
           /\ run[r].pc = "p_inc" => row.retries = a.rec0.retries

C8_Witness ==
  \E r \in Runs :
    /\ run[r].pc = "iter_end" /\ ~run[r].att.dirty
    /\ run[r].att.resp.answer = "yes"
    /\ Incs(run[r].att.ops) = 1
    /\ markets[run[r].att.id].retries = run[r].att.rec0.retries + 1

\* C9: an oracle answer of null that comes with reasoning is settled as NO:
\* the reasoning is annotated and keeps the original text, the NO token is
\* resolved and submitted, the attempt does not fail at the decision step, and
\* on success the winning token is the NO token and retries are unchanged.
C9_NullAnswer(resp) == resp.ok /\ resp.answer = "null" /\ resp.reasoning # <<>>

\* C9: a null answer with reasoning is settled as NO.
C9_NullSettlesNo ==
  \A r \in Runs :
    LET a == run[r].att
        row == markets[run[r].att.id]
        given == run[r].att.resp.reasoning
        told == run[r].att.analysis.reasoning
    IN
    (a.id # 0 /\ C9_NullAnswer(a.resp)) =>
      /\ a.analysis.answer = "NO"
      /\ told[1] = "[AUTO-SETTLED AS NO] Original AI Assessment: "
      /\ SubSeq(told, Len(told) - Len(given) + 1, Len(told)) = given
      /\ a.err \notin {"rejected", "oracle"}
      /\ a.token \in {0, 41 + 2 * a.id}
      /\ a.tx # 0 => txs[a.tx].token = 41 + 2 * a.id
      /\ run[r].pc = "iter_end" =>
           /\ a.result = "failure" => a.err \in {"resolve", "submit", "wait", "store"}
           /\ a.err = "none" => a.result = "success"
      /\ a.result = "success" =>
           /\ Incs(a.ops) = 0
           /\ ~a.dirty =>
                /\ row.processedForSettlement /\ row.isSettledOnChain
                /\ row.winningTokenId = <<(41 + 2 * a.id) \div 10, (41 + 2 * a.id) % 10>>
                /\ row.retries = a.rec0.retries

C9_Witness ==
  \E r \in Runs :
    /\ C9_NullAnswer(run[r].att.resp)
    /\ run[r].att.result = "success" /\ ~run[r].att.dirty
    /\ markets[run[r].att.id].winningTokenId = <<4, 3>>

\* C10: when the ledger reports the market unsettled, the oracle gives a valid
\* answer, the token resolves to T and the settle transaction is confirmed,
\* then after the store writes the record is processed, settled, has winning
\* token T in decimal text, and its retries are what they were.
C10_Expected(id, answer) == IF answer = "YES" THEN 40 + 2 * id ELSE 41 + 2 * id

\* C10: the record after a successful attempt.
C10_SuccessRecord ==
  \A r \in Runs :
    LET a == run[r].att  row == markets[run[r].att.id] IN
    /\ (run[r].pc = "iter_end" /\ a.tx # 0 /\ a.err = "none") => a.result = "success"
    /\ a.result = "success" =>
         /\ ~a.isSettled
         /\ a.analysis.answer \in {"YES", "NO"}
         /\ a.token = C10_Expected(a.id, a.analysis.answer)
         /\ txs[a.tx] = [id |-> a.id, token |-> a.token, st |-> "effect", acked |-> TRUE]
         /\ ~a.dirty =>
              /\ row.processedForSettlement
              /\ row.isSettledOnChain
              /\ row.winningTokenId = <<a.token \div 10, a.token % 10>>
              /\ row.retries = a.rec0.retries

C10_Witness ==
  \E r \in Runs :
    /\ run[r].att.result = "success" /\ ~run[r].att.dirty
    /\ run[r].att.resp.answer = "YES"
    /\ run[r].att.rec0.retries = 1
    /\ markets[run[r].att.id].winningTokenId = <<4, 2>>
    /\ markets[run[r].att.id].retries = 1

\* C16: the state of an attempt against the retry ceiling.
C16_Ceiling ==
  /\ \A i \in Ids : markets[i].retries <= maxRetries
  /\ \A r \in Runs :
       LET a == run[r].att  row == markets[run[r].att.id] IN
       a.id # 0 =>
         /\ a.rec0.retries < maxRetries
         /\ (run[r].pc = "iter_end" /\ a.result = "failure"
               /\ WhereClause(a.rec0, now)
               /\ row.present
               /\ row.processedForSettlement = a.rec0.processedForSettlement
               /\ row.isSettledOnChain = a.rec0.isSettledOnChain
               /\ row.marketEndTime = a.rec0.marketEndTime
               /\ row.fetchedEndTime = a.rec0.fetchedEndTime
               /\ row.retries < maxRetries) =>
              a.id \in Range(getMarketsToProcess(markets, now))

\* C16: the step that takes an entity to the ceiling writes nothing but retries,
\* and an entity at the ceiling is in no query result.
C16_AtCeiling ==
  \A i \in Ids :
    /\ (markets[i].retries < maxRetries /\ markets'[i].retries >= maxRetries) =>
         markets'[i] = [markets[i] EXCEPT !.retries = maxRetries]
    /\ markets'[i].retries >= maxRetries =>
         \A r \in Runs : (run'[r].snap # run[r].snap) => i \notin Range(run'[r].snap)

\* C16: after a failed attempt that leaves retries below maxRetries the entity
\* is returned by the eligibility query again (its other terms unchanged); an
\* entity whose retries reached maxRetries is never fed to the pipeline, and
\* reaching the ceiling writes no other field of the record.
C16_RetryCeiling == []C16_Ceiling /\ [][C16_AtCeiling]_vars

C16_Witness ==
  \E r \in Runs :
    /\ run[r].pc = "iter_end" /\ run[r].att.result = "failure"
    /\ Incs(run[r].att.ops) = 1 /\ ~run[r].att.dirty
    /\ run[r].att.rec0.retries = maxRetries - 1
    /\ markets[run[r].att.id].retries = maxRetries
    /\ ~markets[run[r].att.id].processedForSettlement
    /\ getMarketsToProcess(markets, now) = <<>>

\* C19: the analysis returned for a response, and what the pipeline does with
\* it (the token it settles with, or the failure that counts a retry), are the
\* same whether the sink write succeeds, returns an error, throws, or the
\* sink is not configured.
C19_SinkNonInterference ==
  /\ probe.op \in {"analysis", "decision"} =>
       \A sink \in SinkOutcomes :
         AnalysisRecorded(probe.resp, probe.conditionId, sink).analysis = probe.out.analysis
  /\ probe.op = "decision" =>
       \A sink \in SinkOutcomes :
         SettlementDecision(AnalysisRecorded(probe.resp, probe.conditionId, sink).analysis, TxId)
           = probe.decision

C19_Witness ==
  /\ probe.op = "decision"
  /\ probe.conditionId # 0 /\ probe.sink = "throws"
  /\ probe.resp.answer = "YES" /\ probe.resp.reasoning # <<>>
  /\ probe.decision = [settle |-> TRUE, token |-> getYesTokenId(TxId)]

\* C17: addOrUpdateMarket is an idempotent merge.  On a row that exists a call
\* with the row's creator changes no field and updates no row (updatedAt is
\* not written); a call with another creator changes the creator and nothing
\* else; a call for a missing id inserts the one row of that id; and a second
\* call with the same arguments changes nothing.
C17_UpsertMerges ==
  probe.op = "addOrUpdateMarket" =>
    LET b == probe.before
        a == markets[probe.id]
        creator == probe.x.creator
    IN /\ a.present /\ a.marketCreator = creator
       /\ \A i \in Ids : i # probe.id => addOrUpdateMarket(markets, probe.id, creator)[i] = markets[i]
       /\ (b.present /\ b.marketCreator = creator) => (a = b /\ ~probe.changes)
       /\ (b.present /\ b.marketCreator # creator) =>
            (a = [b EXCEPT !.marketCreator = creator] /\ probe.changes)
       /\ ~b.present => (a = [NoRow EXCEPT !.present = TRUE, !.marketCreator = creator]
                         /\ probe.changes)
       /\ addOrUpdateMarket(markets, probe.id, creator) = markets
       /\ ~addOrUpdateMarketChanges(markets, probe.id, creator)

C17_Witness ==
  /\ probe.op = "addOrUpdateMarket"
  /\ probe.before.present /\ probe.before.marketCreator # probe.x.creator
  /\ probe.before.marketQuestion /\ probe.before.processedForSettlement
  /\ probe.before.retries = 2 /\ probe.before.winningTokenId # <<>>
  /\ markets[probe.id] = [probe.before EXCEPT !.marketCreator = probe.x.creator]

C12_Reflects(op, b, a, x) ==
  CASE op = "addOrUpdateMarket" -> a.present /\ a.marketCreator = x.creator
    [] op = "updateMarketEndTime" -> a.marketEndTime = x.marketEndTime /\ a.fetchedEndTime
    [] op = "updateMarketQuestion" -> a.marketQuestion
    [] op = "setMarketProcessedForSettlement" -> a.processedForSettlement
    [] op = "resetMarketProcessedStatus" -> ~a.processedForSettlement
    [] op = "updateMarketSettledOnChain" -> a.isSettledOnChain = x.isSettled
    [] op = "updateMarketWinningTokenId" -> a.winningTokenId = x.winningTokenId
    [] op = "incrementMarketRetryCount" -> a.retries = b.retries + 1
    [] OTHER -> a.retries = 0

\* C12: a journal row that was pending when recovery started and that recovery
\* has marked completed has its mutation in the entity record, whatever its
\* operation (checked for the journals with one pending row, before the
\* service writes); a row is marked failed only if its replay raised.
C12_RecoveryReapplies ==
  \A j \in boot.pending0 :
    /\ (conn.journal[j].status = "completed" /\ boot.pending0 = {j} /\ boot.served = 0) =>
         C12_Reflects(conn.journal[j].operation, boot.before, markets[TxId], DataOf(TxId))
    /\ conn.journal[j].status = "failed" => j \in boot.raised

\* C13: every replay that executed a mutation was of a row pending at that
\* moment, and no row is replayed twice in one startup.
C13_ReplayOncePendingOnly ==
  \A a \in 1..Len(boot.replayed) :
    /\ boot.replayed[a].status = "pending"
    /\ \A b \in 1..Len(boot.replayed) :
         boot.replayed[a].row = boot.replayed[b].row => a = b

\* C14: every replay of recovery is made before the first store mutation of
\* the listener or the settlement job: none follows a mutation of theirs.
C14_RecoveryBeforeService ==
  \A a \in 1..Len(boot.replayed) : boot.replayed[a].served = 0

\* C15: what the operations other than the live steps would do to retries in
\* the present table: no replay of recovery writes it, and the operation of
\* the reset command sets it to 0.
C15_RecoveryAndReset ==
  \A i \in Ids :
    /\ \A op \in StoreOps, x \in StoreArgs :
         Replay(op, markets, i, x)[i].retries = markets[i].retries
    /\ markets[i].present => resetMarketRetryCount(markets, i)[i].retries = 0

C15_NeverLowered ==
  \A i \in Ids : markets'[i].retries >= markets[i].retries

\* C15: no step of ingestion, of the settlement job and its pipeline, or of a
\* restart lowers the retries of an entity, and no replay of recovery would;
\* only resetMarketRetryCount, which the reset command alone calls, sets it to 0.
C15_RetriesMonotone == []C15_RecoveryAndReset /\ [][C15_NeverLowered]_vars

C15_Witness ==
  \E i \in Ids :
    /\ ing[i] = "pre_read"
    /\ markets[i].retries = maxRetries - 1
    /\ \E r \in Runs : run[r].att.id = i /\ run[r].att.rec0.retries = 1

\* The record after the event has been applied once to table m.
C18_AppliedOnce(m, id) ==
  LET m1 == addOrUpdateMarket(m, id, CreatorOf(id))
      m2 == IF ledgerSettled[id]
              THEN updateMarketWinningTokenId(
                     setMarketProcessedForSettlement(
                       updateMarketSettledOnChain(m1, id, TRUE), id),
                     id, toString(ledgerWinner[id]))
              ELSE m1
      m3 == IF getMarketEndTime(id) > 0
              THEN updateMarketEndTime(m2, id, getMarketEndTime(id)) ELSE m2
  IN updateMarketQuestion(m3, id)[id]

C11_NoWorkLost ==
  \A i \in Ids :
    WhereClause(markets[i], now) ~>
      (markets[i].processedForSettlement \/ markets[i].retries >= maxRetries)

\* C21: a successful reset of an entity that was at the retry ceiling leaves it
\* satisfying the eligibility predicate (its end-time, delay and ledger-status
\* terms holding); the query of the next run returns every entity that
\* satisfies the predicate, and the loop starts the attempt of each row the
\* query returned.
C21_ResetDone ==
  /\ cli.pc # "exited" /\ cli'.pc = "exited" /\ cli'.exit = 0
  /\ cli'.before.retries >= maxRetries

C21_TermsHold(row, t) ==
  EndTimeKnown(row) /\ DelayPassed(row, t) /\ ~row.isSettledOnChain

C21_Step ==
  /\ C21_ResetDone =>
       (C21_TermsHold(markets'[cli'.id], now') => WhereClause(markets'[cli'.id], now'))
  /\ \A r \in Runs :
       /\ (run[r].pc = "query" /\ run'[r].pc = "loop") =>
            \A i \in Ids : WhereClause(markets[i], now) => i \in Range(run'[r].snap)
       /\ (run[r].pc = "loop" /\ run'[r].pc # "loop" /\ run[r].k < Len(run[r].snap)) =>
            /\ run'[r].pc = "chk_read"
            /\ run'[r].att.id = run[r].snap[run[r].k + 1]

C22_Step ==
  \A r \in Runs :
    /\ (run[r].pc = "oracle" /\ run'[r].pc \in {"resolve", "p_inc"}) =>
         now >= getMarketEndTime(run[r].att.id) + 1
    /\ (run[r].pc = "submit" /\ Len(txs') > Len(txs)) =>
         /\ txs'[Len(txs')].id = run[r].att.id
         /\ now >= getMarketEndTime(run[r].att.id) + 1

C22_NotBeforeDelay == [][C22_Step]_vars

C22_Witness ==
  \E r \in Runs :
    /\ run[r].pc = "wait"
    /\ txs[run[r].att.tx].id = run[r].att.id
    /\ now >= getMarketEndTime(run[r].att.id) + 1

\* C23: when a startup step has failed (required configuration missing, the
\* ledger service failing to initialize, the cron expression invalid) the
\* process has exited, and no listener or job is armed.
C23_StartupErrorsFatal ==
  boot.failed # {} => (boot.main = "exited" /\ boot.armed = {})

\* C24: an attempt whose read of the ledger's settled flag is true never
\* reaches the oracle or a submission; unless a store call raises it ends as
\* already settled, having written only the settled and the processed flag,
\* with the record processed and settled and its retries and winning token
\* what they were.
C24_AlreadySettled ==
  \A r \in Runs :
    LET a == run[r].att  row == markets[run[r].att.id] IN
    /\ a.isSettled =>
         /\ run[r].pc \in {"chk_store", "chk_mark", "iter_end", "finally"}
         /\ run[r].pc = "iter_end" => a.result = "alreadySettled"
         /\ a.result = "failure" => a.err = "store"
         /\ a.result = "alreadySettled" => a.ops = <<"settled", "processed">>
    /\ a.result = "alreadySettled" =>
         /\ a.resp = NoResp /\ a.analysis = NoAnalysis
         /\ a.token = 0 /\ a.tx = 0
         /\ \A k \in 1..Len(a.ops) : a.ops[k] \in {"settled", "processed"}
         /\ ~a.dirty =>
              /\ row.processedForSettlement
              /\ row.isSettledOnChain
              /\ row.retries = a.rec0.retries
              /\ row.winningTokenId = a.rec0.winningTokenId

C24_Witness ==
  \E r \in Runs :
    /\ run[r].att.isSettled /\ run[r].att.result = "alreadySettled" /\ ~run[r].att.dirty
    /\ run[r].att.rec0.retries = 1
    /\ markets[run[r].att.id].retries = 1
    /\ markets[run[r].att.id].processedForSettlement

\* C25: an operation that returned has exactly one journal row of its own in
\* the committed state, and that row is completed; and no committed state
\* holds a pending journal row.
C25_JournalLifecycle ==
  /\ \A c \in TxCallers :
       call[c].result = "ok" =>
         /\ Cardinality(TxJournalOf(c)) = 1
         /\ \A k \in TxJournalOf(c) : conn.committed[k].status = "completed"
  /\ \A k \in 1..Len(conn.committed) : conn.committed[k].status # "pending"

\* C26: when the handler of a creation event has found the market settled on
\* the ledger and stored what it found, the record is flagged settled and
\* processed; the winning-token step changes neither flag; and from then on
\* the entity is not returned by the eligibility query and the oracle is not
\* called for it.
C26_Step ==
  \A i \in Ids :
    /\ (ing[i] = "pre_mark" /\ ing'[i] = "pre_token") =>
         (markets'[i].isSettledOnChain /\ markets'[i].processedForSettlement)
    /\ (ing[i] = "pre_token" /\ ing'[i] = "endtime") =>
         /\ markets'[i].isSettledOnChain = markets[i].isSettledOnChain
         /\ markets'[i].processedForSettlement = markets[i].processedForSettlement
    /\ markets[i].processedForSettlement => ~WhereClause(markets'[i], now')
    /\ (markets[i].processedForSettlement /\ markets[i].isSettledOnChain) =>
         \A r \in Runs :
           ~(run[r].att.id = i /\ run[r].pc = "oracle" /\ run'[r].pc \in {"resolve", "p_inc"})

C26_PreSettledShortCircuit == [][C26_Step]_vars

\* C27: a settlement run feeds its eligible entities to the pipeline in
\* ascending end-time order and strictly one at a time: the attempt for the
\* next entity starts only when the one before it has finished, every store
\* write and every transaction sent is for the entity of the attempt in
\* progress, and at no time are two entities inside the pipeline.
C27_OneInPipeline ==
  /\ Cardinality({r \in Runs : run[r].att.id # 0}) <= 1
  /\ \A r \in Runs :
       /\ run[r].att.id # 0 => run[r].att.id = run[r].snap[run[r].k]
       /\ run[r].pc = "loop" => run[r].att = NoAtt

C27_Step ==
  /\ \A r \in Runs :
       /\ (run[r].pc = "query" /\ run'[r].pc = "loop") =>
            /\ Range(run'[r].snap) = {i \in DOMAIN markets : WhereClause(markets[i], now)}
            /\ \A a, b \in 1..Len(run'[r].snap) :
                 a < b => markets[run'[r].snap[a]].marketEndTime
                            <= markets[run'[r].snap[b]].marketEndTime
       /\ (run[r].pc = "loop" /\ run'[r].pc # "loop" /\ run[r].k < Len(run[r].snap)) =>
            /\ run[r].att = NoAtt
            /\ run'[r].k = run[r].k + 1
            /\ run'[r].att.id = run[r].snap[run[r].k + 1]
            /\ UNCHANGED <<markets, txs>>
  /\ \A i \in DOMAIN markets :
       markets'[i] # markets[i] => \E r \in Runs : run[r].att.id = i
  /\ Len(txs') > Len(txs) => \E r \in Runs : run[r].att.id = txs'[Len(txs')].id

C27_InOrderOneAtATime == []C27_OneInPipeline /\ [][C27_Step]_vars

C27_Witness ==
  \E r \in Runs :
    /\ run[r].snap = <<1, 2>>
    /\ run[r].k = 2 /\ run[r].pc = "oracle"
    /\ markets[1].processedForSettlement

\* C30: failure isolation within a run: every entity returned by the
\* eligibility query at the start of a run is fed to the pipeline in that run,
\* so a run that has reached its end has started an attempt for each entry of
\* its snapshot, whatever happened to the entries before.
C30_EveryEntityFed ==
  \A r \in Runs :
    (run[r].pc = "finally" /\ run[r].snap # <<>>) => run[r].k = Len(run[r].snap)

\* C28: whenever the settlement pipeline obtains a decision from the oracle
\* for an entity (a definite answer, or an ambiguous one resolved to NO), the
\* call has sent the audit sink a record for that entity: the write to the
\* sink was attempted, not skipped.
C28_DecisionAudited ==
  \A r \in Runs :
    (run[r].att.id # 0 /\ HasAnswer(run[r].att.analysis)) => run[r].att.audit # "skipped"

\* C29: the settlement job and the metadata backfill jobs are guarded
\* independently.  Each job has at most one of its own runs in progress, and
\* an invocation that finds its job busy returns without starting a run or
\* changing anything (it is skipped, not queued); an invocation that finds
\* its own job idle starts a run whatever the other jobs are doing.
C29_OwnGuard ==
  /\ Cardinality({r \in Runs : run[r].pc # "idle"}) <= 1
  /\ isProcessing <=> \E r \in Runs : run[r].pc # "idle"
  /\ \A j \in DOMAIN probe.busy :
       /\ Cardinality({r \in Runs : probe.at[j][r] # "idle"}) <= 1
       /\ probe.busy[j] <=> \E r \in Runs : probe.at[j][r] # "idle"
       /\ probe.turnedAway[j] => probe.busy[j]

C29_NotHeldUp ==
  /\ \A r \in Runs :
       (~isProcessing /\ run[r].pc = "idle" /\ \A q \in Runs : q < r => run[q].pc # "idle")
         => ENABLED (Invoke(r) /\ run'[r].pc = "query")
  /\ \A j \in DOMAIN probe.busy : \A r \in Runs :
       (~probe.busy[j] /\ probe.at[j][r] = "idle"
          /\ \A q \in Runs : q < r => probe.at[j][q] # "idle")
         => ENABLED (FetchInvoke(j, r) /\ probe'.at[j][r] = "fetch")

C29_Skipped ==
  /\ \A r \in Runs :
       (run'[r].turnedAway /\ ~run[r].turnedAway) =>
         /\ isProcessing /\ UNCHANGED <<markets, txs, isProcessing, probe>>
         /\ \A q \in Runs : run'[q].pc = run[q].pc
  /\ \A j \in DOMAIN probe.busy :
       (probe'.turnedAway[j] /\ ~probe.turnedAway[j]) =>
         /\ probe.busy[j]
         /\ UNCHANGED <<markets, txs, isProcessing, run>>
         /\ probe'.busy = probe.busy /\ probe'.at = probe.at

C29_JobsGuardedIndependently ==
  [](C29_OwnGuard /\ C29_NotHeldUp) /\ [][C29_Skipped]_vars

C29_Witness ==
  /\ \E r \in Runs : run[r].pc = "oracle" /\ run[r].turnedAway
  /\ \A j \in DOMAIN probe.busy : probe.busy[j] /\ probe.turnedAway[j]

\* C37: guard accuracy.  isProcessing is true exactly while a settlement run
\* is executing; a run that ends, by completing its loop or through the job's
\* catch, clears it in the same step, and an invocation that finds no run
\* executing is never skipped: it starts a run.
C37_GuardExact ==
  /\ isProcessing <=> \E r \in Runs : run[r].pc # "idle"
  /\ (\A q \in Runs : run[q].pc = "idle")
       => \E r \in Runs : ENABLED (Invoke(r) /\ run'[r].pc = "query")

C37_RunEnds ==
  \A r \in Runs :
    (run[r].pc = "finally" /\ run'[r].pc = "idle") => ~isProcessing'

C37_GuardAccurate == []C37_GuardExact /\ [][C37_RunEnds]_vars

C37_Witness ==
  \E r \in Runs :
    /\ run[r].pc = "oracle"
    /\ markets[run[r].att.id].retries = 1
    /\ run[r].att.rec0.retries = 1
    /\ isProcessing

\* C38: in every reachable state every entity has 0 <= retries <= maxRetries;
\* the count goes up only by one, only in a step of a settlement run for the
\* entity the run took from its eligibility snapshot, at most once per
\* attempt, and from a value below the ceiling.
C38_Bounded ==
  \A i \in DOMAIN markets : markets[i].retries \in 0..maxRetries

C38_Increment ==
  \A i \in DOMAIN markets :
    markets'[i].retries > markets[i].retries =>
      /\ markets'[i].retries = markets[i].retries + 1
      /\ markets[i].retries < maxRetries
      /\ \E r \in Runs :
           /\ run[r].att.id = i
           /\ run[r].snap[run[r].k] = i
           /\ Incs(run[r].att.ops) = 0
           /\ Incs(run'[r].att.ops) = 1

C38_RetriesWithinCeiling == []C38_Bounded /\ [][C38_Increment]_vars

C38_Witness ==
  \E r \in Runs :
    /\ run[r].pc = "iter_end"
    /\ Incs(run[r].att.ops) = 1
    /\ run[r].att.err = "oracle"
    /\ markets[run[r].att.id].retries = maxRetries

\* C32: bounded attempts.  With no reset in between, an entity whose attempts
\* keep failing is fed to the pipeline, and the oracle is invoked for it, at
\* most maxRetries times: from some point on no run invokes the oracle again.
C32_AttemptsBounded == <>[](\A r \in Runs : run[r].pc # "oracle")

\* C36: processedForSettlement is absorbing: no step of any operation takes an
\* entity's flag from true back to false.
C36_Step ==
  \A i \in DOMAIN markets :
    markets[i].processedForSettlement => markets'[i].processedForSettlement

C36_ProcessedAbsorbing == [][C36_Step]_vars

\* C33: when an invocation of recoverPendingOperations has returned, none of
\* the journal rows it found pending is still pending: each is completed or
\* failed, also when a replay statement or a status update raised on the way.
C33_NoPendingLeft ==
  \A h \in RecoveryCalls :
    boot.rec[h].pc = "done" =>
      \A k \in 1..Len(boot.rec[h].ops) :
        conn.journal[boot.rec[h].ops[k]].status \in {"completed", "failed"}

\* C31: no entity is left for good with the ledger status recorded as settled
\* and the processed flag not set: from every state in which its record says
\* so, the processed flag is eventually set.
C31_SettledGetsProcessed ==
  \A i \in Ids :
    (markets[i].isSettledOnChain /\ ~markets[i].processedForSettlement)
      ~> markets[i].processedForSettlement

\* C34: the oracle is never invoked, and no settle transaction is submitted,
\* for an entity whose record has processedForSettlement = true at that
\* moment, also when a creation event for it is ingested while a settlement
\* run works from a snapshot taken earlier.
C34_Step ==
  \A r \in Runs :
    /\ (run[r].pc = "oracle" /\ run'[r].pc \in {"resolve", "p_inc"}) =>
         ~markets[run[r].att.id].processedForSettlement
    /\ (run[r].pc = "submit" /\ Len(txs') > Len(txs)) =>
         ~markets[run[r].att.id].processedForSettlement

C34_NoWorkOnProcessed == [][C34_Step]_vars

\* C35: recorded token consistency.  In every reachable state a winning token
\* recorded for an entity is the token with which the entity is settled on
\* the ledger.
C35_TokenConsistent ==
  \A i \in DOMAIN markets :
    markets[i].winningTokenId # <<>> =>
      /\ ledgerSettled[i]
      /\ markets[i].winningTokenId = toString(ledgerWinner[i])

\* C39: backfill progress.  Under fair backfill runs every entity that misses
\* its end time (its question) is eventually in the batch selected by a run
\* of the end-time (question) job, which then attempts its fetch, also when
\* older entities keep failing their fetch and stay in the batch.
C39_BackfillReachesAll ==
  \A i \in 1..(BatchLimit + 1) : \A j \in {"endTimes", "questions"} :
    (/\ markets[i].present
     /\ IF j = "endTimes" THEN ~markets[i].fetchedEndTime ELSE ~markets[i].marketQuestion)
    ~> (\E r \in Runs : probe.at[j][r] = "store" /\ i \in probe.batch[j])

====
